---- MODULE Spec2Model ----
(***************************************************************************)
(* Model of the eutrader market-making engine: the paper executor          *)
(* (crates/engine/src/paper.rs), the order manager                         *)
(* (crates/engine/src/manager.rs), the quoter and the risk gate            *)
(* (crates/strategy/src), and inventory accounting (crates/core/src).      *)
(*                                                                         *)
(* rust_decimal::Decimal values are fixed-point integers: the decimal d is *)
(* the integer d * Scale.  Every value the configurations below produce    *)
(* is a multiple of 1/Scale except avg_entry, whose division is truncated  *)
(* at 1/Scale where Decimal rounds at 28 digits.                           *)
(***************************************************************************)
EXTENDS Integers, Sequences, FiniteSets, TLC

\* ------------------------------------------------------------------------
\* Bounds of the model
\* ------------------------------------------------------------------------

\* number of snapshots the manager loop receives before the stream ends
MaxSnapshots == 4

\* number of place_order calls of the free-running executor client
MaxOrders == 3

\* number of fills applied to one position
MaxFills == 4

\* number of snapshots the feed task sends
MaxSends == 258

\* number of add_fill calls on one dashboard
MaxAdds == 52

\* ------------------------------------------------------------------------
\* Decimal arithmetic
\* ------------------------------------------------------------------------

Scale == 10000

ZERO == 0

\* dec!(n) for an integer n
Int2Dec(n) == n * Scale

\* dec!(0.cc): a number of hundredths
Cents(c) == c * (Scale \div 100)

Abs(x) == IF x < 0 THEN -x ELSE x

Max(a, b) == IF a >= b THEN a ELSE b

Min(a, b) == IF a <= b THEN a ELSE b

\* truncation toward zero of an integer quotient
TruncDiv(a, b) ==
    IF (a >= 0) = (b > 0) THEN Abs(a) \div Abs(b) ELSE -(Abs(a) \div Abs(b))

DecMul(a, b) == TruncDiv(a * b, Scale)

DecDiv(a, b) == TruncDiv(a * Scale, b)

\* a / dec!(n) for an integer n (the quotient a * Scale / (n * Scale))
DecDivInt(a, n) == TruncDiv(a, n)

\* Decimal::floor: the largest integer <= a
DecFloor(a) == (a \div Scale) * Scale

\* Decimal::ceil: the smallest integer >= a
DecCeil(a) == -(((-a) \div Scale) * Scale)

\* ------------------------------------------------------------------------
\* Types (crates/core/src/types.rs)
\* ------------------------------------------------------------------------

Side == {"Buy", "Sell"}

\* OrderId(format!("paper-{}", n))
OrderId(n) == <<"paper", n>>

OpenOrder(id, token_id, side, price, size) ==
    [id |-> id, token_id |-> token_id, side |-> side, price |-> price, size |-> size]

\* InventoryPosition::new
NewPosition(token_id) ==
    [token_id |-> token_id, net_position |-> ZERO, avg_entry |-> ZERO,
     realized_pnl |-> ZERO, fill_count |-> 0]

\* the snapshot of a book whose best levels are best_bid < best_ask
\* (the timestamp fields of MarketSnapshot and Fill hold Utc::now(); no
\* operation reads them and they are left out of the records)
MarketSnapshot(token_id, best_bid, best_ask) ==
    [token_id |-> token_id, best_bid |-> best_bid, best_ask |-> best_ask,
     midpoint |-> DecDiv(best_bid + best_ask, Int2Dec(2)),
     spread |-> best_ask - best_bid]

NoSnapshot == [token_id |-> "none"]

\* ------------------------------------------------------------------------
\* Configuration
\* ------------------------------------------------------------------------

\* tokens with a [[markets]] entry, and one without
ConfiguredTokens == {"tokA", "tokB"}

Tokens == ConfiguredTokens \cup {"tokU"}

\* config.markets, keyed by token_id as OrderManager::new builds it
market_configs ==
    [t \in ConfiguredTokens |->
        IF t = "tokA"
        THEN [name |-> "A", token_id |-> t, spread_bps |-> 300, size |-> Int2Dec(5),
              max_inventory |-> Int2Dec(5), skew_factor |-> 40]
        ELSE [name |-> "B", token_id |-> t, spread_bps |-> 400, size |-> Int2Dec(5),
              max_inventory |-> ZERO, skew_factor |-> 0]]

\* config.risk
risk_config ==
    [max_position_per_market |-> Int2Dec(6), max_total_exposure |-> Int2Dec(8),
     max_unrealized_loss |-> Cents(20)]

\* best bid / best ask pairs the feed delivers (best_bid < best_ask)
BookLevels ==
    {<<Cents(49), Cents(51)>>, <<Cents(40), Cents(47)>>, <<Cents(30), Cents(35)>>,
     <<Cents(53), Cents(60)>>, <<Cents(1), Cents(2)>>}

\* the snapshots the feed can emit: one per token and book
Snapshots ==
    {MarketSnapshot(t, l[1], l[2]) : t \in ConfiguredTokens, l \in BookLevels}
        \cup {MarketSnapshot("tokU", Cents(49), Cents(51))}

\* ------------------------------------------------------------------------
\* State
\* ------------------------------------------------------------------------

VARIABLES
    state,       \* PaperState: [orders, fills, next_id]
    fill_ids,    \* the OrderId of each entry of state.fills (history)
    last_fills,  \* the Vec<Fill> returned by the latest check_fills
    positions,   \* OrderManager.positions: token_id -> InventoryPosition
    pc,          \* position of the manager loop
    snap,        \* the snapshot being processed
    received,    \* number of snapshots taken from the stream
    mids,        \* latest midpoint seen per token (history)
    last,        \* what the latest handle_snapshot did (history)
    call,        \* the latest call a client made on the executor (history)
    conc,        \* the tasks calling the executor concurrently, and its mutex
    calc,        \* the latest evaluation of a function: its inputs and result
    feed         \* the broadcast channel between the feed and its consumer

vars ==
    <<state, fill_ids, last_fills, positions, pc, snap, received, mids, last, call, conc,
      calc, feed>>

\* the state of the engine
engineVars ==
    <<state, fill_ids, last_fills, positions, pc, snap, received, mids, last, call, conc>>

managerVars == <<positions, pc, snap, received, mids, last>>

\* ------------------------------------------------------------------------
\* Paper executor (crates/engine/src/paper.rs)
\* ------------------------------------------------------------------------

EmptyMap == [x \in {} |-> x]

\* HashMap::insert
MapInsert(m, k, v) == [x \in (DOMAIN m) \cup {k} |-> IF x = k THEN v ELSE m[x]]

\* HashMap::remove, for a set of keys
MapRemove(m, ks) == [x \in (DOMAIN m) \ ks |-> m[x]]

\* PaperState::new
NewPaperState == [orders |-> EmptyMap, fills |-> <<>>, next_id |-> 1]

\* next_order_id without the increment of the counter
next_order_id_reuses(st) == [id |-> OrderId(st.next_id), st |-> st]

next_order_id(st) ==
    [id |-> OrderId(st.next_id), st |-> [st EXCEPT !.next_id = @ + 1]]

place_order(st, token_id, side, price, size) ==
    LET r == next_order_id(st)
        order == OpenOrder(r.id, token_id, side, price, size)
    IN  [id |-> r.id, st |-> [r.st EXCEPT !.orders = MapInsert(@, r.id, order)]]

\* cancel_order emptying the whole book
cancel_order_clears_book(st, id) == [st EXCEPT !.orders = EmptyMap]

cancel_order(st, id) ==
    IF id \in DOMAIN st.orders
    THEN [st EXCEPT !.orders = MapRemove(@, {id})]
    ELSE st

\* cancel_all starting the id counter over
cancel_all_restarts_ids(st) == [st EXCEPT !.orders = EmptyMap, !.next_id = 1]

\* cancel_all starting the executor state over, the journal included
cancel_all_clears_journal(st) == [st EXCEPT !.orders = EmptyMap, !.fills = <<>>]

cancel_all(st) == [st EXCEPT !.orders = EmptyMap]

\* the Vec of open orders; ids are unique, so the set holds the same orders
open_orders(st) == {st.orders[id] : id \in DOMAIN st.orders}

\* should_fill taking every order of the token as crossed
should_fill_at_any_price(order, snapshot) == TRUE

\* should_fill with strict comparisons: a price met exactly does not fill
should_fill_strict(order, snapshot) ==
    IF order.side = "Buy"
    THEN snapshot.best_ask < order.price
    ELSE snapshot.best_bid > order.price

should_fill(order, snapshot) ==
    IF order.side = "Buy"
    THEN snapshot.best_ask <= order.price
    ELSE snapshot.best_bid >= order.price

\* the ids collected without the comparison of the order's token with the
\* snapshot's
CrossingIdsOfAnyToken(st, snapshot) ==
    {id \in DOMAIN st.orders : should_fill(st.orders[id], snapshot)}

\* the ids check_fills collects in filled_ids
CrossingIds(st, snapshot) ==
    {id \in DOMAIN st.orders :
        /\ st.orders[id].token_id = snapshot.token_id
        /\ should_fill(st.orders[id], snapshot)}

\* the orders in which a HashMap may iterate over the keys S
IterationOrders(S) ==
    {s \in [1..Cardinality(S) -> S] : \A i, j \in DOMAIN s : i # j => s[i] # s[j]}

FillOf(order) ==
    [token_id |-> order.token_id, side |-> order.side, price |-> order.price,
     size |-> order.size, is_simulated |-> TRUE]

\* check_fills without the removal of the filled orders from the book
check_fills_keeps_orders(st, snapshot, filled_ids) ==
    LET fills == [i \in DOMAIN filled_ids |-> FillOf(st.orders[filled_ids[i]])]
    IN  [fills |-> fills, st |-> [st EXCEPT !.fills = @ \o fills]]

\* check_fills, when the map iteration meets the crossing orders as filled_ids
check_fills(st, snapshot, filled_ids) ==
    LET fills == [i \in DOMAIN filled_ids |-> FillOf(st.orders[filled_ids[i]])]
    IN  [fills |-> fills,
         st |-> [st EXCEPT !.orders = MapRemove(@, {filled_ids[i] : i \in DOMAIN filled_ids}),
                           !.fills = @ \o fills]]


\* ------------------------------------------------------------------------
\* Inventory accounting (crates/core/src/types.rs)
\* ------------------------------------------------------------------------

\* apply_fill leaving avg_entry alone when the position changes sides
apply_fill_keeps_entry_on_flip(position, fill) ==
    LET signed_size == IF fill.side = "Buy" THEN fill.size ELSE -fill.size
        old_position == position.net_position
        increasing == \/ (old_position >= ZERO /\ signed_size > ZERO)
                      \/ (old_position <= ZERO /\ signed_size < ZERO)
        total_size == Abs(old_position) + Abs(signed_size)
        pnl_per_unit == IF fill.side = "Sell"
                        THEN fill.price - position.avg_entry
                        ELSE position.avg_entry - fill.price
    IN  [token_id |-> position.token_id,
         net_position |-> old_position + signed_size,
         avg_entry |->
            IF increasing /\ total_size > ZERO
            THEN DecDiv(DecMul(Abs(old_position), position.avg_entry)
                            + DecMul(Abs(signed_size), fill.price), total_size)
            ELSE position.avg_entry,
         realized_pnl |->
            IF increasing
            THEN position.realized_pnl
            ELSE position.realized_pnl
                    + DecMul(Min(Abs(signed_size), Abs(old_position)), pnl_per_unit),
         fill_count |-> position.fill_count + 1]

\* apply_fill with the sign of the realized P&L per unit reversed
apply_fill_reverses_pnl(position, fill) ==
    LET signed_size == IF fill.side = "Buy" THEN fill.size ELSE -fill.size
        old_position == position.net_position
        net_position == old_position + signed_size
        increasing == \/ (old_position >= ZERO /\ signed_size > ZERO)
                      \/ (old_position <= ZERO /\ signed_size < ZERO)
        total_size == Abs(old_position) + Abs(signed_size)
        pnl_per_unit == IF fill.side = "Sell"
                        THEN position.avg_entry - fill.price
                        ELSE fill.price - position.avg_entry
        flipped == \/ (net_position > ZERO /\ old_position < ZERO)
                   \/ (net_position < ZERO /\ old_position > ZERO)
    IN  [token_id |-> position.token_id,
         net_position |-> net_position,
         avg_entry |->
            IF increasing
            THEN (IF total_size > ZERO
                  THEN DecDiv(DecMul(Abs(old_position), position.avg_entry)
                                  + DecMul(Abs(signed_size), fill.price), total_size)
                  ELSE position.avg_entry)
            ELSE (IF flipped THEN fill.price ELSE position.avg_entry),
         realized_pnl |->
            IF increasing
            THEN position.realized_pnl
            ELSE position.realized_pnl
                    + DecMul(Min(Abs(signed_size), Abs(old_position)), pnl_per_unit),
         fill_count |-> position.fill_count + 1]

apply_fill(position, fill) ==
    LET signed_size == IF fill.side = "Buy" THEN fill.size ELSE -fill.size
        old_position == position.net_position
        net_position == old_position + signed_size
        increasing == \/ (old_position >= ZERO /\ signed_size > ZERO)
                      \/ (old_position <= ZERO /\ signed_size < ZERO)
        old_cost == DecMul(Abs(old_position), position.avg_entry)
        new_cost == DecMul(Abs(signed_size), fill.price)
        total_size == Abs(old_position) + Abs(signed_size)
        closed_size == Min(Abs(signed_size), Abs(old_position))
        pnl_per_unit == IF fill.side = "Sell"
                        THEN fill.price - position.avg_entry
                        ELSE position.avg_entry - fill.price
        flipped == \/ (net_position > ZERO /\ old_position < ZERO)
                   \/ (net_position < ZERO /\ old_position > ZERO)
    IN  [token_id |-> position.token_id,
         net_position |-> net_position,
         avg_entry |->
            IF increasing
            THEN (IF total_size > ZERO
                  THEN DecDiv(old_cost + new_cost, total_size)
                  ELSE position.avg_entry)
            ELSE (IF flipped THEN fill.price ELSE position.avg_entry),
         realized_pnl |->
            IF increasing
            THEN position.realized_pnl
            ELSE position.realized_pnl + DecMul(closed_size, pnl_per_unit),
         fill_count |-> position.fill_count + 1]

unrealized_pnl(position, mid_price) ==
    IF position.net_position > ZERO
    THEN DecMul(position.net_position, mid_price - position.avg_entry)
    ELSE IF position.net_position < ZERO
         THEN DecMul(Abs(position.net_position), position.avg_entry - mid_price)
         ELSE ZERO

\* ------------------------------------------------------------------------
\* Quoter (crates/strategy/src/quoter.rs)
\* ------------------------------------------------------------------------

\* dec!(0.01), the tick
Tick == 100

\* the clamp bounds dec!(0.01) and dec!(0.99)
MinPrice == 100

MaxPrice == 9900

\* floor_to_tick without the rounding
floor_to_tick_keeps_value(value, tick) == value

floor_to_tick(value, tick) == DecMul(DecFloor(DecDiv(value, tick)), tick)

\* ceil_to_tick rounding down
ceil_to_tick_rounds_down(value, tick) == DecMul(DecFloor(DecDiv(value, tick)), tick)

ceil_to_tick(value, tick) == DecMul(DecCeil(DecDiv(value, tick)), tick)

None == [some |-> FALSE]

\* quote without the minimum of one unit on the reduced size
quote_reduces_below_one(snapshot, inventory, config) ==
    LET mid == snapshot.midpoint
        half_spread == DecDivInt(DecDivInt(Int2Dec(config.spread_bps), 10000), 2)
        skew == DecMul(inventory.net_position, config.skew_factor)
        bid == Min(Max(floor_to_tick(mid - half_spread - skew, Tick), MinPrice), MaxPrice)
        ask == Min(Max(ceil_to_tick(mid + half_spread - skew, Tick), MinPrice), MaxPrice)
        utilization == DecDiv(Abs(inventory.net_position), config.max_inventory)
        reduction == Int2Dec(1)
                        - DecMul(DecDiv(utilization - Cents(80), Cents(20)), Cents(80))
        size == IF config.max_inventory > ZERO /\ utilization > Cents(80)
                THEN DecMul(config.size, Max(reduction, Cents(20)))
                ELSE config.size
    IN  IF bid >= ask
        THEN None
        ELSE [some |-> TRUE, token_id |-> snapshot.token_id,
              bid_price |-> bid, ask_price |-> ask, size |-> size]

\* quote with the skew added to the base quotes
quote_skews_up(snapshot, inventory, config) ==
    LET mid == snapshot.midpoint
        half_spread == DecDivInt(DecDivInt(Int2Dec(config.spread_bps), 10000), 2)
        skew == DecMul(inventory.net_position, config.skew_factor)
        bid == Min(Max(floor_to_tick(mid - half_spread + skew, Tick), MinPrice), MaxPrice)
        ask == Min(Max(ceil_to_tick(mid + half_spread + skew, Tick), MinPrice), MaxPrice)
    IN  IF bid >= ask
        THEN None
        ELSE [some |-> TRUE, token_id |-> snapshot.token_id,
              bid_price |-> bid, ask_price |-> ask, size |-> config.size]

\* quote with a throttle that grows the size above 80% of the cap
quote_throttle_grows(snapshot, inventory, config) ==
    LET mid == snapshot.midpoint
        half_spread == DecDivInt(DecDivInt(Int2Dec(config.spread_bps), 10000), 2)
        skew == DecMul(inventory.net_position, config.skew_factor)
        bid == Min(Max(floor_to_tick(mid - half_spread - skew, Tick), MinPrice), MaxPrice)
        ask == Min(Max(ceil_to_tick(mid + half_spread - skew, Tick), MinPrice), MaxPrice)
        utilization == DecDiv(Abs(inventory.net_position), config.max_inventory)
        reduction == Int2Dec(1)
                        + DecMul(DecDiv(utilization - Cents(80), Cents(20)), Cents(80))
        size == IF config.max_inventory > ZERO /\ utilization > Cents(80)
                THEN Max(DecMul(config.size, Max(reduction, Cents(20))), Int2Dec(1))
                ELSE config.size
    IN  IF bid >= ask
        THEN None
        ELSE [some |-> TRUE, token_id |-> snapshot.token_id,
              bid_price |-> bid, ask_price |-> ask, size |-> size]

quote(snapshot, inventory, config) ==
    LET mid == snapshot.midpoint
        half_spread == DecDivInt(DecDivInt(Int2Dec(config.spread_bps), 10000), 2)
        skew == DecMul(inventory.net_position, config.skew_factor)
        bid == Min(Max(floor_to_tick(mid - half_spread - skew, Tick), MinPrice), MaxPrice)
        ask == Min(Max(ceil_to_tick(mid + half_spread - skew, Tick), MinPrice), MaxPrice)
        utilization == DecDiv(Abs(inventory.net_position), config.max_inventory)
        reduction == Int2Dec(1)
                        - DecMul(DecDiv(utilization - Cents(80), Cents(20)), Cents(80))
        size == IF config.max_inventory > ZERO /\ utilization > Cents(80)
                THEN Max(DecMul(config.size, Max(reduction, Cents(20))), Int2Dec(1))
                ELSE config.size
    IN  IF bid >= ask
        THEN None
        ELSE [some |-> TRUE, token_id |-> snapshot.token_id,
              bid_price |-> bid, ask_price |-> ask, size |-> size]

\* ------------------------------------------------------------------------
\* Risk gate (crates/strategy/src/risk.rs)
\* ------------------------------------------------------------------------

\* check_order without the check of the bid fill
check_order_ask_only(inventory, q, config) ==
    IF Abs(inventory.net_position - q.size) > config.max_position_per_market
    THEN "RiskBreach(ask)"
    ELSE "Ok"

\* check_order rejecting a hypothetical position equal to the limit
check_order_rejects_at_limit(inventory, q, config) ==
    LET position_after_buy == inventory.net_position + q.size
        position_after_sell == inventory.net_position - q.size
    IN  IF Abs(position_after_buy) >= config.max_position_per_market
        THEN "RiskBreach(bid)"
        ELSE IF Abs(position_after_sell) >= config.max_position_per_market
             THEN "RiskBreach(ask)"
             ELSE "Ok"

\* "Ok", or the side whose fill would breach the per-market limit
check_order(inventory, q, config) ==
    LET position_after_buy == inventory.net_position + q.size
        position_after_sell == inventory.net_position - q.size
    IN  IF Abs(position_after_buy) > config.max_position_per_market
        THEN "RiskBreach(bid)"
        ELSE IF Abs(position_after_sell) > config.max_position_per_market
             THEN "RiskBreach(ask)"
             ELSE "Ok"

RECURSIVE SumExposure(_)
SumExposure(ps) ==
    IF ps = <<>> THEN ZERO ELSE Abs(Head(ps).net_position) + SumExposure(Tail(ps))

check_portfolio(ps, config) ==
    IF SumExposure(ps) > config.max_total_exposure THEN "RiskBreach" ELSE "Ok"

RECURSIVE SumUnrealized(_, _)
SumUnrealized(ps, mid_prices) ==
    IF ps = <<>>
    THEN ZERO
    ELSE unrealized_pnl(Head(ps), Head(mid_prices))
            + SumUnrealized(Tail(ps), Tail(mid_prices))

\* should_kill_switch_with_prices triggering on a loss equal to the limit
should_kill_switch_at_limit(ps, mid_prices, config) ==
    LET total_unrealized == SumUnrealized(ps, mid_prices)
    IN  total_unrealized < ZERO /\ Abs(total_unrealized) >= config.max_unrealized_loss

should_kill_switch_with_prices(ps, mid_prices, config) ==
    LET total_unrealized == SumUnrealized(ps, mid_prices)
    IN  total_unrealized < ZERO /\ Abs(total_unrealized) > config.max_unrealized_loss

\* ------------------------------------------------------------------------
\* Order manager (crates/engine/src/manager.rs)
\* ------------------------------------------------------------------------

\* positions.entry(token_id).or_insert_with(|| InventoryPosition::new(token_id))
EnsurePosition(ps, token_id) ==
    IF token_id \in DOMAIN ps THEN ps ELSE MapInsert(ps, token_id, NewPosition(token_id))

RECURSIVE apply_fills(_, _)
apply_fills(ps, fills) ==
    IF fills = <<>>
    THEN ps
    ELSE LET fill == Head(fills)
             ensured == EnsurePosition(ps, fill.token_id)
         IN  apply_fills(
                [ensured EXCEPT ![fill.token_id] = apply_fill(@, fill)],
                Tail(fills))

\* the state after cancel_order was called for every id of ids
RECURSIVE CancelEach(_, _)
CancelEach(st, ids) ==
    IF ids = {}
    THEN st
    ELSE LET id == CHOOSE x \in ids : TRUE
         IN  CancelEach(cancel_order(st, id), ids \ {id})

\* reconcile_orders without the early return on matching orders
reconcile_orders_always_replaces(st, token_id, target) ==
    LET my_orders == {o \in open_orders(st) : o.token_id = token_id}
        cancelled == CancelEach(st, {o.id : o \in my_orders})
        with_bid == place_order(cancelled, token_id, "Buy",
                                target.bid_price, target.size).st
        with_ask == place_order(with_bid, token_id, "Sell",
                                target.ask_price, target.size).st
    IN  [st |-> with_ask, cancels |-> Cardinality(my_orders), places |-> 2]

\* reconcile_orders without the cancellation of the stale orders
reconcile_orders_keeps_stale(st, token_id, target) ==
    LET my_orders == {o \in open_orders(st) : o.token_id = token_id}
        has_matching_bid ==
            \E o \in my_orders :
                o.side = "Buy" /\ o.price = target.bid_price /\ o.size = target.size
        has_matching_ask ==
            \E o \in my_orders :
                o.side = "Sell" /\ o.price = target.ask_price /\ o.size = target.size
        with_bid == place_order(st, token_id, "Buy", target.bid_price, target.size).st
        with_ask == place_order(with_bid, token_id, "Sell",
                                target.ask_price, target.size).st
    IN  IF has_matching_bid /\ has_matching_ask /\ Cardinality(my_orders) = 2
        THEN [st |-> st, cancels |-> 0, places |-> 0]
        ELSE [st |-> with_ask, cancels |-> 0, places |-> 2]

\* reconcile_orders cancelling the stale orders of every token
reconcile_orders_cancels_every_token(st, token_id, target) ==
    LET my_orders == {o \in open_orders(st) : o.token_id = token_id}
        has_matching_bid ==
            \E o \in my_orders :
                o.side = "Buy" /\ o.price = target.bid_price /\ o.size = target.size
        has_matching_ask ==
            \E o \in my_orders :
                o.side = "Sell" /\ o.price = target.ask_price /\ o.size = target.size
        cancelled == CancelEach(st, {o.id : o \in open_orders(st)})
        place_bid == target.bid_price > ZERO /\ target.size > ZERO
        place_ask == target.ask_price > ZERO /\ target.size > ZERO
        with_bid == IF place_bid
                    THEN place_order(cancelled, token_id, "Buy",
                                     target.bid_price, target.size).st
                    ELSE cancelled
        with_ask == IF place_ask
                    THEN place_order(with_bid, token_id, "Sell",
                                     target.ask_price, target.size).st
                    ELSE with_bid
    IN  IF has_matching_bid /\ has_matching_ask /\ Cardinality(my_orders) = 2
        THEN [st |-> st, cancels |-> 0, places |-> 0]
        ELSE [st |-> with_ask, cancels |-> Cardinality(open_orders(st)),
              places |-> (IF place_bid THEN 1 ELSE 0) + (IF place_ask THEN 1 ELSE 0)]

\* reconcile_orders placing the bid only
reconcile_orders_places_bid_only(st, token_id, target) ==
    LET my_orders == {o \in open_orders(st) : o.token_id = token_id}
        has_matching_bid ==
            \E o \in my_orders :
                o.side = "Buy" /\ o.price = target.bid_price /\ o.size = target.size
        has_matching_ask ==
            \E o \in my_orders :
                o.side = "Sell" /\ o.price = target.ask_price /\ o.size = target.size
        cancelled == CancelEach(st, {o.id : o \in my_orders})
        place_bid == target.bid_price > ZERO /\ target.size > ZERO
        with_bid == IF place_bid
                    THEN place_order(cancelled, token_id, "Buy",
                                     target.bid_price, target.size).st
                    ELSE cancelled
    IN  IF has_matching_bid /\ has_matching_ask /\ Cardinality(my_orders) = 2
        THEN [st |-> st, cancels |-> 0, places |-> 0]
        ELSE [st |-> with_bid, cancels |-> Cardinality(my_orders),
              places |-> IF place_bid THEN 1 ELSE 0]

reconcile_orders(st, token_id, target) ==
    LET my_orders == {o \in open_orders(st) : o.token_id = token_id}
        has_matching_bid ==
            \E o \in my_orders :
                o.side = "Buy" /\ o.price = target.bid_price /\ o.size = target.size
        has_matching_ask ==
            \E o \in my_orders :
                o.side = "Sell" /\ o.price = target.ask_price /\ o.size = target.size
        cancelled == CancelEach(st, {o.id : o \in my_orders})
        place_bid == target.bid_price > ZERO /\ target.size > ZERO
        place_ask == target.ask_price > ZERO /\ target.size > ZERO
        with_bid == IF place_bid
                    THEN place_order(cancelled, token_id, "Buy",
                                     target.bid_price, target.size).st
                    ELSE cancelled
        with_ask == IF place_ask
                    THEN place_order(with_bid, token_id, "Sell",
                                     target.ask_price, target.size).st
                    ELSE with_bid
    IN  IF has_matching_bid /\ has_matching_ask /\ Cardinality(my_orders) = 2
        THEN [st |-> st, cancels |-> 0, places |-> 0]
        ELSE [st |-> with_ask, cancels |-> Cardinality(my_orders),
              places |-> (IF place_bid THEN 1 ELSE 0) + (IF place_ask THEN 1 ELSE 0)]

\* the orders of one token among the open orders
OrdersOf(st, token_id) == {o \in open_orders(st) : o.token_id = token_id}

\* the pull-quotes path returning without cancelling
pull_quotes_forgets(st) == st

\* "pulling quotes": self.executor.cancel_all().await?
pull_quotes(st) == cancel_all(st)

\* the breach handed back to the caller as the error of handle_snapshot
breach_result_propagates(risk) == risk

\* what handle_snapshot returns after it pulled the quotes for a breach
breach_result(risk) == "Ok"

\* handle_snapshot from the position tracker on (the token is configured):
\* the new executor state and positions, and a record of the executor calls
handle_configured(st, ps, snapshot) ==
    LET token_id == snapshot.token_id
        market_cfg == market_configs[token_id]
        ensured == EnsurePosition(ps, token_id)
        position == ensured[token_id]
        target_quote == quote(snapshot, position, market_cfg)
        risk == check_order(position, target_quote, risk_config)
        rec == reconcile_orders(st, token_id, target_quote)
        open_before == Cardinality(OrdersOf(st, token_id))
        others_before == Cardinality(open_orders(st)) - open_before
    IN  IF ~target_quote.some
        THEN [st |-> pull_quotes(st), positions |-> ensured,
              did |-> [outcome |-> "no_quote", result |-> "Ok", token_id |-> token_id,
                       inventory |-> position.net_position, target |-> None,
                       open_before |-> open_before, others_before |-> others_before,
                       cancel_alls |-> 1, cancels |-> 0, places |-> 0]]
        ELSE IF risk # "Ok"
        THEN [st |-> pull_quotes(st), positions |-> ensured,
              did |-> [outcome |-> "risk_breach", result |-> breach_result(risk),
                       token_id |-> token_id,
                       inventory |-> position.net_position, target |-> target_quote,
                       open_before |-> open_before, others_before |-> others_before,
                       cancel_alls |-> 1, cancels |-> 0, places |-> 0]]
        ELSE [st |-> rec.st, positions |-> ensured,
              did |-> [outcome |-> "reconciled", result |-> "Ok", token_id |-> token_id,
                       inventory |-> position.net_position, target |-> target_quote,
                       open_before |-> open_before, others_before |-> others_before,
                       cancel_alls |-> 0, cancels |-> rec.cancels,
                       places |-> rec.places]]

\* what handle_snapshot records when it drops a snapshot
Dropped(st, token_id) ==
    [outcome |-> "unconfigured", result |-> "Ok", token_id |-> token_id,
     inventory |-> ZERO, target |-> None,
     open_before |-> Cardinality(OrdersOf(st, token_id)),
     others_before |-> Cardinality(open_orders(st)) - Cardinality(OrdersOf(st, token_id)),
     cancel_alls |-> 0, cancels |-> 0, places |-> 0]

\* handle_snapshot creating the position tracker before it looks up the
\* market config
handle_snapshot_tracks_first(st, ps, snapshot) ==
    IF snapshot.token_id \notin DOMAIN market_configs
    THEN [st |-> st, positions |-> EnsurePosition(ps, snapshot.token_id),
          did |-> Dropped(st, snapshot.token_id)]
    ELSE handle_configured(st, ps, snapshot)

handle_snapshot(st, ps, snapshot) ==
    IF snapshot.token_id \notin DOMAIN market_configs
    THEN [st |-> st, positions |-> ps, did |-> Dropped(st, snapshot.token_id)]
    ELSE handle_configured(st, ps, snapshot)

\* shutdown without the call of cancel_all
shutdown_skips_cancel(st) == st

\* shutdown: cancel_all, then the P&L summary (which only logs)
shutdown(st) == cancel_all(st)

\* run_paper handling the snapshot before it checks for fills
run_paper_next_handles_first(stage) ==
    CASE stage = "recv" -> "handle_snapshot"
      [] stage = "handle_snapshot" -> "check_fills"
      [] stage = "check_fills" -> "apply_fills"
      [] stage = "apply_fills" -> "recv"

\* the body of the run_paper loop: the step that follows each step
run_paper_next(stage) ==
    CASE stage = "recv" -> "check_fills"
      [] stage = "check_fills" -> "apply_fills"
      [] stage = "apply_fills" -> "handle_snapshot"
      [] stage = "handle_snapshot" -> "recv"

NoOrderId == OrderId(0)

NoCall == [op |-> "none", id |-> NoOrderId, snapshot |-> NoSnapshot, result |-> "none"]

\* the tasks that share the executor (clones of the Arc)
Tasks == {"t1", "t2"}

\* a task that is in no call of the executor
IdleTask ==
    [pc |-> "idle", op |-> "none", id |-> NoOrderId, order |-> <<>>,
     snapshot |-> NoSnapshot, filled_ids |-> <<>>, fills |-> <<>>, ret |-> <<>>]

\* no task is calling the executor and its mutex is free; seq is the state
\* the executor had when the latest call returned
NoTasks == [lock |-> "free", seq |-> NewPaperState, task |-> [t \in Tasks |-> IdleTask]]

\* nothing was evaluated yet
NoCalc == [fn |-> "none"]

\* broadcast::channel(capacity): nothing sent, the receiver at the start.
\* The snapshots sent are numbered 1, 2, ...; sent is the number sent so far,
\* next the number the receiver has received or skipped, last the number of
\* the snapshot the stream yielded last, lagged the number of snapshots
\* the Lagged errors since then reported as skipped; dropped: the stream (and its receiver) is gone;
\* closed: the feed task has returned and dropped the sender
NewChannel ==
    [sent |-> 0, next |-> 0, last |-> 0, lagged |-> 0, dropped |-> FALSE, closed |-> FALSE]

NoAction ==
    [outcome |-> "none", result |-> "Ok", token_id |-> "none", inventory |-> ZERO, target |-> None,
     open_before |-> 0, others_before |-> 0, cancel_alls |-> 0, cancels |-> 0, places |-> 0]

Init ==
    /\ state = NewPaperState
    /\ fill_ids = <<>>
    /\ last_fills = <<>>
    /\ positions = EmptyMap
    /\ pc = "recv"
    /\ snap = NoSnapshot
    /\ received = 0
    /\ mids = EmptyMap
    /\ last = NoAction
    /\ call = NoCall
    /\ conc = NoTasks
    /\ calc = NoCalc
    /\ feed = NewChannel

\* ------------------------------------------------------------------------
\* The manager loop run_paper over the paper executor
\* ------------------------------------------------------------------------

\* snapshots.next() yields Some(snapshot)
Recv(snapshot) ==
    /\ pc = "recv"
    /\ received < MaxSnapshots
    /\ snap' = snapshot
    /\ received' = received + 1
    /\ mids' = MapInsert(mids, snapshot.token_id, snapshot.midpoint)
    /\ pc' = run_paper_next("recv")
    /\ UNCHANGED <<state, fill_ids, last_fills, positions, last, call, conc, calc, feed>>

\* self.executor.check_fills(&snapshot)
RunCheckFills ==
    /\ pc = "check_fills"
    /\ \E filled_ids \in IterationOrders(CrossingIds(state, snap)) :
            LET r == check_fills(state, snap, filled_ids)
            IN  /\ state' = r.st
                /\ last_fills' = r.fills
                /\ fill_ids' = fill_ids \o filled_ids
    /\ pc' = run_paper_next("check_fills")
    /\ UNCHANGED <<positions, snap, received, mids, last, call, conc, calc, feed>>

\* the loop applying the fills only when there are none
RunApplyFillsInverted ==
    /\ pc = "apply_fills"
    /\ positions' = IF last_fills = <<>> THEN apply_fills(positions, last_fills)
                                         ELSE positions
    /\ pc' = run_paper_next("apply_fills")
    /\ UNCHANGED <<state, fill_ids, last_fills, snap, received, mids, last, call, conc, calc, feed>>

\* if !fills.is_empty() { self.apply_fills(&fills) }
RunApplyFills ==
    /\ pc = "apply_fills"
    /\ positions' = IF last_fills # <<>> THEN apply_fills(positions, last_fills)
                                         ELSE positions
    /\ pc' = run_paper_next("apply_fills")
    /\ UNCHANGED <<state, fill_ids, last_fills, snap, received, mids, last, call, conc, calc, feed>>

\* self.handle_snapshot(&snapshot)
HandleSnapshot ==
    /\ pc = "handle_snapshot"
    /\ LET r == handle_snapshot(state, positions, snap)
       IN  /\ state' = r.st
           /\ positions' = r.positions
           /\ last' = r.did
    /\ pc' = run_paper_next("handle_snapshot")
    /\ UNCHANGED <<fill_ids, last_fills, snap, received, mids, call, conc, calc, feed>>

\* snapshots.next() yields None
StreamEnd ==
    /\ pc = "recv"
    /\ pc' = "shutdown"
    /\ UNCHANGED <<state, fill_ids, last_fills, positions, snap, received, mids, last,
                   call, conc, calc, feed>>

\* the ctrl_c future completes while the loop waits in select!
CtrlC ==
    /\ pc = "recv"
    /\ pc' = "shutdown"
    /\ UNCHANGED <<state, fill_ids, last_fills, positions, snap, received, mids, last,
                   call, conc, calc, feed>>

\* self.shutdown()
Shutdown ==
    /\ pc = "shutdown"
    /\ state' = shutdown(state)
    /\ pc' = "stopped"
    /\ UNCHANGED <<fill_ids, last_fills, positions, snap, received, mids, last, call, conc,
                   calc, feed>>

Next ==
    \/ \E snapshot \in Snapshots : Recv(snapshot)
    \/ RunCheckFills
    \/ RunApplyFills
    \/ HandleSnapshot
    \/ StreamEnd
    \/ CtrlC
    \/ Shutdown

Spec == Init /\ [][Next]_vars

\* ------------------------------------------------------------------------
\* The executor driven by an arbitrary client (any sequence of calls)
\* ------------------------------------------------------------------------

ClientPrices == {Cents(48), Cents(52)}

ClientSizes == {Int2Dec(5)}

\* the orders the client places: a Buy at each price and a Sell of tokA,
\* and a Buy of tokB
ClientPlacements ==
    {o \in ConfiguredTokens \X Side \X ClientPrices \X ClientSizes :
        \/ o[1] = "tokA" /\ (o[2] = "Buy" \/ o[3] = Cents(52))
        \/ o[1] = "tokB" /\ o[2] = "Buy" /\ o[3] = Cents(48)}

\* books that cross none of these orders, the Buys (best_ask 0.48 meets the
\* lower Buy exactly) or the Sells (best_bid 0.52 meets the upper Sell exactly)
ClientLevels ==
    {<<Cents(49), Cents(51)>>, <<Cents(45), Cents(48)>>, <<Cents(52), Cents(55)>>}

ClientSnapshots ==
    {MarketSnapshot(t, l[1], l[2]) : t \in ConfiguredTokens, l \in ClientLevels}

PlaceOrder(token_id, side, price, size) ==
    /\ state.next_id <= MaxOrders
    /\ LET r == place_order(state, token_id, side, price, size)
       IN  /\ state' = r.st
           /\ call' = [op |-> "place_order", id |-> r.id, snapshot |-> NoSnapshot,
                       result |-> "Ok"]
    /\ UNCHANGED <<fill_ids, last_fills, managerVars, conc, calc, feed>>

CancelOrder(id) ==
    /\ state' = cancel_order(state, id)
    /\ call' = [op |-> "cancel_order", id |-> id, snapshot |-> NoSnapshot,
                result |-> "Ok"]
    /\ UNCHANGED <<fill_ids, last_fills, managerVars, conc, calc, feed>>

CancelAll ==
    /\ state' = cancel_all(state)
    /\ call' = [op |-> "cancel_all", id |-> NoOrderId, snapshot |-> NoSnapshot,
                result |-> "Ok"]
    /\ UNCHANGED <<fill_ids, last_fills, managerVars, conc, calc, feed>>

OpenOrders ==
    /\ call' = [op |-> "open_orders", id |-> NoOrderId, snapshot |-> NoSnapshot,
                result |-> "Ok"]
    /\ UNCHANGED <<state, fill_ids, last_fills, managerVars, conc, calc, feed>>

CheckFills(snapshot) ==
    \E filled_ids \in IterationOrders(CrossingIds(state, snapshot)) :
        LET r == check_fills(state, snapshot, filled_ids)
        IN  /\ state' = r.st
            /\ last_fills' = r.fills
            /\ fill_ids' = fill_ids \o filled_ids
            /\ call' = [op |-> "check_fills", id |-> NoOrderId, snapshot |-> snapshot,
                        result |-> "Ok"]
            /\ UNCHANGED <<managerVars, conc, calc, feed>>

NextPaper ==
    \/ \E o \in ClientPlacements : PlaceOrder(o[1], o[2], o[3], o[4])
    \/ \E n \in 1..(MaxOrders + 1) : CancelOrder(OrderId(n))
    \/ CancelAll
    \/ OpenOrders
    \/ \E snapshot \in ClientSnapshots : CheckFills(snapshot)

SpecPaper == Init /\ [][NextPaper]_vars

\* ------------------------------------------------------------------------
\* C2  At-most-once fill: over any sequence of place_order, cancel_order,
\* cancel_all and check_fills calls, no OrderId is filled more than once,
\* and an order that was filled is no longer open.
\* ------------------------------------------------------------------------
C2_AtMostOnceFill ==
    /\ \A i, j \in DOMAIN fill_ids : i # j => fill_ids[i] # fill_ids[j]
    /\ \A i \in DOMAIN fill_ids : fill_ids[i] \notin DOMAIN state.orders

\* an order was filled, and a later check_fills call ran on a book that still
\* holds an open order
C2_Witness ==
    /\ Len(fill_ids) >= 2
    /\ Len(last_fills) = 1
    /\ DOMAIN state.orders # {}

\* ------------------------------------------------------------------------
\* Properties of the manager loop
\* ------------------------------------------------------------------------

\* the inventory handle_snapshot quotes from, and the quote it computes
InventoryOf(ps, token_id) == EnsurePosition(ps, token_id)[token_id]

TargetNow == quote(snap, InventoryOf(positions, snap.token_id), market_configs[snap.token_id])

\* the snapshot being handled belongs to a configured token and is quoted
QuotedNow ==
    /\ pc = "handle_snapshot"
    /\ snap.token_id \in DOMAIN market_configs
    /\ TargetNow.some
    /\ check_order(InventoryOf(positions, snap.token_id), TargetNow, risk_config) = "Ok"

\* the snapshot being handled belongs to a configured token and is not quoted
PulledNow ==
    /\ pc = "handle_snapshot"
    /\ snap.token_id \in DOMAIN market_configs
    /\ \/ ~TargetNow.some
       \/ check_order(InventoryOf(positions, snap.token_id), TargetNow, risk_config) # "Ok"

\* the (side, price, size) of the open orders of a token
Book(st, token_id) == {<<o.side, o.price, o.size>> : o \in OrdersOf(st, token_id)}

TargetBook(target) ==
    {<<"Buy", target.bid_price, target.size>>, <<"Sell", target.ask_price, target.size>>}

\* the open orders of the token are exactly two, one matching each side
MatchesTarget(st, token_id, target) ==
    /\ Cardinality(OrdersOf(st, token_id)) = 2
    /\ Book(st, token_id) = TargetBook(target)

\* net position of a token according to the fill journal
RECURSIVE JournalNet(_, _)
JournalNet(fills, token_id) ==
    IF fills = <<>>
    THEN ZERO
    ELSE (IF Head(fills).token_id # token_id
          THEN ZERO
          ELSE IF Head(fills).side = "Buy" THEN Head(fills).size ELSE -Head(fills).size)
         + JournalNet(Tail(fills), token_id)

PositionNet(token_id) ==
    IF token_id \in DOMAIN positions THEN positions[token_id].net_position ELSE ZERO

FillCount(token_id) ==
    IF token_id \in DOMAIN positions THEN positions[token_id].fill_count ELSE 0

TokenOrder == <<"tokA", "tokB", "tokU">>

Tracked(token_id) == token_id \in DOMAIN positions

\* the positions as a slice, and the latest midpoints parallel to it
PositionSlice ==
    LET ts == SelectSeq(TokenOrder, Tracked)
    IN  [i \in DOMAIN ts |-> positions[ts[i]]]

MidSlice ==
    LET ts == SelectSeq(TokenOrder, Tracked)
    IN  [i \in DOMAIN ts |-> mids[ts[i]]]

\* ------------------------------------------------------------------------
\* C1  Reconcile idempotence: when the open orders of the snapshot's token
\* are exactly a Buy at (bid, size) and a Sell at (ask, size) of the target
\* quote, handling the snapshot makes no place_order, cancel_order or
\* cancel_all call: the order map, the ids and next_id stay as they are.
\* ------------------------------------------------------------------------
C1_ReconcileIdempotent ==
    [][(QuotedNow /\ MatchesTarget(state, snap.token_id, TargetNow))
          => /\ state' = state
             /\ last'.places = 0
             /\ last'.cancels = 0
             /\ last'.cancel_alls = 0]_vars

\* a snapshot was reconciled against a book that already matched
C1_Witness ==
    /\ pc = "recv"
    /\ last.outcome = "reconciled"
    /\ last.open_before = 2
    /\ last.places = 0
    /\ last.cancels = 0
    /\ MatchesTarget(state, last.token_id, last.target)

\* ------------------------------------------------------------------------
\* C3  After a snapshot of a configured token was quoted and passed the
\* risk check, the open orders of the token are exactly the target's Buy
\* and Sell, whatever was open before.
\* ------------------------------------------------------------------------
C3_BookEqualsTarget ==
    (pc = "recv" /\ last.outcome = "reconciled")
        => MatchesTarget(state, last.token_id, last.target)

\* stale orders of the token were open when the snapshot was reconciled
C3_Witness ==
    /\ pc = "recv"
    /\ last.outcome = "reconciled"
    /\ last.open_before > 0
    /\ last.cancels > 0
    /\ last.places = 2

\* ------------------------------------------------------------------------
\* C4  Pull-quotes path: when the quoter returns None or the risk check
\* fails for a snapshot of token T, handling the snapshot leaves no open
\* order of T and places no order.
\* ------------------------------------------------------------------------
C4_PullQuotes ==
    [][PulledNow
          => /\ OrdersOf(state', snap.token_id) = {}
             /\ state'.next_id = state.next_id
             /\ last'.places = 0]_vars

\* quotes were pulled while an order of the token was open
C4_Witness ==
    /\ pc = "recv"
    /\ last.outcome \in {"no_quote", "risk_breach"}
    /\ last.open_before > 0
    /\ OrdersOf(state, last.token_id) = {}

\* ------------------------------------------------------------------------
\* C5  Pulling quotes is per token: when quotes are pulled for token T the
\* open orders of every other token are the same before and after.
\* ------------------------------------------------------------------------
C5_PullIsPerToken ==
    [][PulledNow
          => \A t \in Tokens \ {snap.token_id} : OrdersOf(state', t) = OrdersOf(state, t)]_vars

\* ------------------------------------------------------------------------
\* C6  Per-market position limit: every token's |net_position| stays
\* within risk.max_position_per_market.
\* ------------------------------------------------------------------------
C6_PositionLimit ==
    \A t \in DOMAIN positions :
        Abs(positions[t].net_position) <= risk_config.max_position_per_market

\* a position sits exactly at the limit and its quotes were pulled for it
C6_Witness ==
    /\ pc = "recv"
    /\ last.outcome = "risk_breach"
    /\ Abs(PositionNet(last.token_id)) = risk_config.max_position_per_market

\* ------------------------------------------------------------------------
\* C7  Portfolio exposure limit: the sum over all tokens of |net_position|
\* stays within risk.max_total_exposure.
\* ------------------------------------------------------------------------
C7_ExposureLimit == check_portfolio(PositionSlice, risk_config) = "Ok"

\* ------------------------------------------------------------------------
\* C8  Kill switch: while the aggregate unrealized loss at the latest
\* midpoints exceeds risk.max_unrealized_loss, handling a snapshot places
\* no order.
\* ------------------------------------------------------------------------
KillSwitchOn == should_kill_switch_with_prices(PositionSlice, MidSlice, risk_config)

C8_KillSwitchPauses ==
    [][(pc = "handle_snapshot" /\ KillSwitchOn)
          => state'.next_id = state.next_id]_vars

\* ------------------------------------------------------------------------
\* C9  Fills before quote: when handle_snapshot starts for snapshot n, no
\* open order of its token still crosses n and every journalled fill is in
\* the inventory; the inventory the quote and risk check used is the one
\* the journal gives after the fills of n.
\* ------------------------------------------------------------------------
C9_FillsBeforeQuote ==
    /\ pc = "handle_snapshot"
          => /\ CrossingIds(state, snap) = {}
             /\ \A t \in Tokens : PositionNet(t) = JournalNet(state.fills, t)
    /\ (pc = "recv" /\ last.outcome \in {"no_quote", "risk_breach", "reconciled"})
          => last.inventory = JournalNet(state.fills, last.token_id)

\* the snapshot just handled triggered a fill and was quoted from the
\* inventory that holds it
C9_Witness ==
    /\ pc = "recv"
    /\ last_fills # <<>>
    /\ last.outcome = "reconciled"
    /\ last.inventory # ZERO
    /\ last.inventory = JournalNet(state.fills, last.token_id)

\* ------------------------------------------------------------------------
\* C10  apply_fill once per fill: after every snapshot the fill counts of
\* the positions add up to the length of the journal and every
\* net_position is the signed sum of the token's journalled fills.
\* ------------------------------------------------------------------------
C10_OnceFillApplied ==
    pc = "recv"
        => /\ FillCount("tokA") + FillCount("tokB") + FillCount("tokU") = Len(state.fills)
           /\ \A t \in Tokens : PositionNet(t) = JournalNet(state.fills, t)

\* a Buy fill and a Sell fill have been applied
C10_Witness ==
    /\ pc = "recv"
    /\ \E i, j \in DOMAIN state.fills :
          state.fills[i].side = "Buy" /\ state.fills[j].side = "Sell"

\* ------------------------------------------------------------------------
\* The life of one order in the paper executor
\* ------------------------------------------------------------------------

IdsOf(ids) == {ids[i] : i \in DOMAIN ids}

\* where the order with number n is, in the book st with the ids fids filled
OrderStatus(st, fids, n) ==
    IF OrderId(n) \in DOMAIN st.orders THEN "Open"
    ELSE IF OrderId(n) \in IdsOf(fids) THEN "Filled"
    ELSE IF n < st.next_id THEN "Cancelled"
    ELSE "NotPlaced"

OrderStep(n) ==
    LET id == OrderId(n)
        before == OrderStatus(state, fill_ids, n)
        after == OrderStatus(state', fill_ids', n)
    IN  /\ ~(id \in DOMAIN state'.orders /\ id \in IdsOf(fill_ids'))
        /\ before \in {"Filled", "Cancelled"} => after = before
        /\ before = "NotPlaced" => after \in {"NotPlaced", "Open"}
        /\ (before = "Open" /\ after = "Open") => state'.orders[id] = state.orders[id]
        /\ (before = "Open" /\ after = "Filled") =>
               \E i \in DOMAIN last_fills' :
                   /\ fill_ids'[Len(fill_ids) + i] = id
                   /\ last_fills'[i].size = state.orders[id].size

\* ------------------------------------------------------------------------
\* C11  Per-order state machine: an order is Open, Filled or Cancelled and
\* never two of them; an id that left the open-order map never comes back
\* to it; an open order keeps its fields; a fill carries the full size of
\* its order; place_order returns Ok with an id that is then open.
\* ------------------------------------------------------------------------
C11_OrderStateMachine ==
    [][/\ \A n \in 1..(MaxOrders + 1) : OrderStep(n)
       /\ call'.op = "place_order" =>
              /\ call'.result = "Ok"
              /\ call'.id \notin DOMAIN state.orders
              /\ call'.id \in DOMAIN state'.orders]_vars

\* one order was filled, one was cancelled, and a third one is open
C11_Witness ==
    \E a, b, c \in 1..MaxOrders :
        /\ OrderStatus(state, fill_ids, a) = "Filled"
        /\ OrderStatus(state, fill_ids, b) = "Cancelled"
        /\ OrderStatus(state, fill_ids, c) = "Open"

\* once the shutdown path has started, run_paper only returns
ShutdownIsFinal ==
    [][(pc \in {"shutdown", "stopped"}) =>
           (pc' = "stopped" /\ UNCHANGED <<received, snap, last, positions, fill_ids>>)]_vars

\* ------------------------------------------------------------------------
\* C12  Shutdown path: after the stream ended or Ctrl+C arrived the loop
\* has left; shutdown() calls cancel_all before run_paper returns, so no
\* order is open once it has returned, and no snapshot is received or
\* handled after the shutdown path has started.
\* ------------------------------------------------------------------------
C12_ShutdownPath ==
    [](pc = "stopped" => DOMAIN state.orders = {}) /\ ShutdownIsFinal

\* run_paper returned after a snapshot for which it had placed quotes
C12_Witness ==
    /\ pc = "stopped"
    /\ last.outcome = "reconciled"
    /\ last.places > 0

\* ------------------------------------------------------------------------
\* The engine as a spawned task beside the dashboard
\* (crates/cli/src/main.rs, TUI mode)
\* ------------------------------------------------------------------------

\* the user presses 'q': run_dashboard returns and main aborts the engine
\* task, which is dropped where it is suspended, in the select! of the loop
TuiQuit ==
    /\ pc = "recv"
    /\ pc' = "aborted"
    /\ UNCHANGED <<state, fill_ids, last_fills, positions, snap, received, mids, last,
                   call, conc, calc, feed>>

NextTui ==
    \/ Next
    \/ TuiQuit

SpecTui == Init /\ [][NextTui]_vars

\* the engine task has ended, by returning from run_paper or by the abort
EngineEnded == pc \in {"stopped", "aborted"}

\* ------------------------------------------------------------------------
\* C13  Every external cancellation, Ctrl+C and the quit of the dashboard,
\* runs the shutdown path before the engine task ends: the engine never
\* ends with orders still open.
\* ------------------------------------------------------------------------
C13_CancellationRunsShutdown == EngineEnded => DOMAIN state.orders = {}

BreachReturnsOk ==
    [][(pc = "handle_snapshot" /\ last'.outcome = "risk_breach") =>
           (/\ last'.result = "Ok"
            /\ last'.cancel_alls = 1
            /\ DOMAIN state'.orders = {}
            /\ pc' = "recv")]_vars

LoopGoesOnAfterBreach ==
    (last.outcome = "risk_breach" /\ pc = "recv" /\ received < MaxSnapshots) =>
        \A snapshot \in Snapshots : ENABLED Recv(snapshot)

\* ------------------------------------------------------------------------
\* C14  Risk breaches are local: when check_order refuses the quote,
\* handle_snapshot pulls the quotes and returns Ok, the loop goes on to
\* wait for the next snapshot, and that snapshot can be received.
\* ------------------------------------------------------------------------
C14_BreachIsLocal == BreachReturnsOk /\ []LoopGoesOnAfterBreach

\* after a breach the next snapshot went through check_fills and apply_fills
\* and is about to be handled
C14_Witness ==
    /\ last.outcome = "risk_breach"
    /\ pc = "handle_snapshot"
    /\ snap.token_id = last.token_id

\* ------------------------------------------------------------------------
\* The generic loop (OrderManager::run) on an executor whose calls may fail
\* ------------------------------------------------------------------------

\* the most executor calls one handle_snapshot makes: open_orders, a cancel
\* for each of the token's two orders, and two placements
MaxCalls == 5

ExecutorCall(op, id, token_id, side, price, size) ==
    [op |-> op, id |-> id, token_id |-> token_id, side |-> side, price |-> price,
     size |-> size]

\* the executor calls of handle_snapshot in the order it makes them, when
\* open_orders lists the token's orders as my_ids
ExecutorCalls(st, ps, snapshot, my_ids) ==
    LET token_id == snapshot.token_id
        market_cfg == market_configs[token_id]
        position == EnsurePosition(ps, token_id)[token_id]
        target == quote(snapshot, position, market_cfg)
        risk == check_order(position, target, risk_config)
        my_orders == OrdersOf(st, token_id)
        has_matching_bid ==
            \E o \in my_orders :
                o.side = "Buy" /\ o.price = target.bid_price /\ o.size = target.size
        has_matching_ask ==
            \E o \in my_orders :
                o.side = "Sell" /\ o.price = target.ask_price /\ o.size = target.size
        cancel_all_call == ExecutorCall("cancel_all", NoOrderId, "none", "Buy", ZERO, ZERO)
        open_orders_call == ExecutorCall("open_orders", NoOrderId, "none", "Buy", ZERO, ZERO)
        cancels ==
            [i \in DOMAIN my_ids |->
                ExecutorCall("cancel_order", my_ids[i], "none", "Buy", ZERO, ZERO)]
        bid == IF target.bid_price > ZERO /\ target.size > ZERO
               THEN <<ExecutorCall("place_order", NoOrderId, token_id, "Buy",
                                   target.bid_price, target.size)>>
               ELSE <<>>
        ask == IF target.ask_price > ZERO /\ target.size > ZERO
               THEN <<ExecutorCall("place_order", NoOrderId, token_id, "Sell",
                                   target.ask_price, target.size)>>
               ELSE <<>>
    IN  IF token_id \notin DOMAIN market_configs THEN <<>>
        ELSE IF ~target.some THEN <<cancel_all_call>>
        ELSE IF risk # "Ok" THEN <<cancel_all_call>>
        ELSE IF has_matching_bid /\ has_matching_ask /\ Cardinality(my_orders) = 2
        THEN <<open_orders_call>>
        ELSE <<open_orders_call>> \o cancels \o bid \o ask

\* a call that succeeds, on an executor that keeps its book as the paper one
ApplyCall(st, c) ==
    CASE c.op = "cancel_all" -> cancel_all(st)
      [] c.op = "cancel_order" -> cancel_order(st, c.id)
      [] c.op = "place_order" -> place_order(st, c.token_id, c.side, c.price, c.size).st
      [] c.op = "open_orders" -> st

RECURSIVE ApplyCalls(_, _)
ApplyCalls(st, calls) ==
    IF calls = <<>> THEN st ELSE ApplyCalls(ApplyCall(st, Head(calls)), Tail(calls))

CountCalls(calls, op) == Cardinality({i \in DOMAIN calls : calls[i].op = op})

\* the loop ending when handle_snapshot returned an error
run_next_breaks_on_error(result) == IF result = "Err" THEN "shutdown" ELSE "recv"

\* where the loop goes with the result of handle_snapshot: an error is
\* logged, and select! is entered again
run_next(result) == "recv"

\* the snapshots of this loop: three books of tokA (the last one too tight
\* to quote), one of tokB and the one of the unconfigured token
RunSnapshots ==
    {s \in Snapshots :
        /\ s.best_bid \in {Cents(49), Cents(40), Cents(1)}
        /\ s.token_id = "tokA" \/ s.best_bid = Cents(49)}

\* snapshots.next() yields Some(snapshot)
RunRecv(snapshot) ==
    /\ pc = "recv"
    /\ received < MaxSnapshots
    /\ snap' = snapshot
    /\ received' = received + 1
    /\ pc' = "handle_snapshot"
    /\ UNCHANGED <<state, fill_ids, last_fills, positions, mids, last, call, conc, calc, feed>>

\* self.handle_snapshot(&snapshot), in which the call number fail (if
\* there is one) returns an error and has no effect
RunHandleSnapshot ==
    /\ pc = "handle_snapshot"
    /\ \E my_ids \in IterationOrders({o.id : o \in OrdersOf(state, snap.token_id)}),
          fail \in 0..MaxCalls :
        LET calls == ExecutorCalls(state, positions, snap, my_ids)
            failed == fail \in DOMAIN calls
            made == IF failed THEN SubSeq(calls, 1, fail - 1) ELSE calls
            final == IF failed THEN fail ELSE Len(calls)
            result == IF failed THEN "Err" ELSE "Ok"
            did == handle_snapshot(state, positions, snap).did
        IN  /\ state' = ApplyCalls(state, made)
            /\ positions' = IF snap.token_id \in DOMAIN market_configs
                            THEN EnsurePosition(positions, snap.token_id)
                            ELSE positions
            /\ last' = [did EXCEPT !.result = result,
                                   !.cancel_alls = CountCalls(made, "cancel_all"),
                                   !.cancels = CountCalls(made, "cancel_order"),
                                   !.places = CountCalls(made, "place_order")]
            /\ call' = IF calls = <<>>
                       THEN call
                       ELSE [op |-> calls[final].op, id |-> calls[final].id,
                             snapshot |-> NoSnapshot, result |-> result]
            /\ pc' = run_next(result)
    /\ UNCHANGED <<fill_ids, last_fills, snap, received, mids, conc, calc, feed>>

RunStreamEnd ==
    /\ pc = "recv"
    /\ pc' = "shutdown"
    /\ UNCHANGED <<state, fill_ids, last_fills, positions, snap, received, mids, last,
                   call, conc, calc, feed>>

\* the ctrl_c future completes while the loop waits in select!
RunCtrlC ==
    /\ pc = "recv"
    /\ pc' = "shutdown"
    /\ UNCHANGED <<state, fill_ids, last_fills, positions, snap, received, mids, last,
                   call, conc, calc, feed>>

\* self.shutdown(): cancel_all, whose error is only logged
RunShutdown ==
    /\ pc = "shutdown"
    /\ \E failed \in BOOLEAN :
        /\ state' = IF failed THEN state ELSE cancel_all(state)
        /\ call' = [op |-> "cancel_all", id |-> NoOrderId, snapshot |-> NoSnapshot,
                    result |-> IF failed THEN "Err" ELSE "Ok"]
    /\ pc' = "stopped"
    /\ UNCHANGED <<fill_ids, last_fills, positions, snap, received, mids, last, conc, calc, feed>>

NextRun ==
    \/ \E snapshot \in RunSnapshots : RunRecv(snapshot)
    \/ RunHandleSnapshot
    \/ RunStreamEnd
    \/ RunCtrlC
    \/ RunShutdown

SpecRun == Init /\ [][NextRun]_vars

ErrorKeepsLoopRunning ==
    [][(pc = "handle_snapshot" /\ last'.result = "Err") =>
           (pc' = "recv" /\ received' = received)]_vars

NextSnapshotAfterError ==
    (last.result = "Err" /\ pc = "recv") =>
        /\ ENABLED RunStreamEnd
        /\ received < MaxSnapshots => \A snapshot \in RunSnapshots : ENABLED RunRecv(snapshot)

ShutdownAfterError ==
    /\ pc = "shutdown" => ENABLED RunShutdown
    /\ pc = "stopped" => call.op = "cancel_all"

\* ------------------------------------------------------------------------
\* C15  Executor errors do not end the loop: when a call of the executor
\* fails while snapshot n is handled, the loop is back at select!, receives
\* and handles snapshot n+1, and on the end of the stream it still calls
\* cancel_all before it returns.
\* ------------------------------------------------------------------------
C15_ErrorsDoNotEndLoop ==
    ErrorKeepsLoopRunning /\ []NextSnapshotAfterError /\ []ShutdownAfterError

\* the handling of a snapshot failed after it had cancelled an order, and
\* the next snapshot has been received
C15_Witness ==
    /\ last.result = "Err"
    /\ last.cancels > 0
    /\ pc = "handle_snapshot"

\* the loop is working on a snapshot of a token without market config
DroppingSnapshot ==
    /\ snap.token_id \notin DOMAIN market_configs
    /\ pc \in {"check_fills", "apply_fills", "handle_snapshot"}

\* ------------------------------------------------------------------------
\* C16  A snapshot of a token that has no market config is dropped: no
\* step of its loop iteration places or cancels an order or produces a
\* fill, and the positions map stays as it is (no entry for that token).
\* ------------------------------------------------------------------------
C16_UnconfiguredDropped ==
    [][DroppingSnapshot =>
           /\ UNCHANGED <<state, positions, fill_ids>>
           /\ last_fills' = <<>>
           /\ snap.token_id \notin DOMAIN positions'
           /\ pc = "handle_snapshot" =>
                  /\ last'.outcome = "unconfigured"
                  /\ last'.cancel_alls + last'.cancels + last'.places = 0]_vars

\* a snapshot of the unconfigured token was dropped while orders were open
\* and a position was tracked
C16_Witness ==
    /\ last.outcome = "unconfigured"
    /\ last.others_before > 0
    /\ DOMAIN positions # {}
    /\ \E t \in DOMAIN positions : positions[t].net_position # ZERO

\* ------------------------------------------------------------------------
\* What the calls of the paper executor return and change
\* ------------------------------------------------------------------------

\* the order is of the snapshot's token and the market has reached its price
Crosses(order, snapshot) ==
    /\ order.token_id = snapshot.token_id
    /\ order.side = "Buy" => snapshot.best_ask <= order.price
    /\ order.side = "Sell" => snapshot.best_bid >= order.price

\* the ids of the orders filled by the call that led to the next state
NewFillIds == SubSeq(fill_ids', Len(fill_ids) + 1, Len(fill_ids'))

\* ------------------------------------------------------------------------
\* C17  check_fills(snapshot) returns exactly one fill for each open order
\* of the snapshot's token that crosses (Buy: best_ask <= price; Sell:
\* best_bid >= price) and none for any other order; each fill has the
\* side, the price and the size of its order and is_simulated = true.
\* ------------------------------------------------------------------------
C17_FillsAreTheCrossingOrders ==
    [][call'.op = "check_fills" =>
           /\ Len(NewFillIds) = Len(last_fills')
           /\ \A i, j \in DOMAIN NewFillIds : i # j => NewFillIds[i] # NewFillIds[j]
           /\ IdsOf(NewFillIds) =
                  {id \in DOMAIN state.orders : Crosses(state.orders[id], call'.snapshot)}
           /\ \A i \in DOMAIN last_fills' :
                  LET fill == last_fills'[i]
                      order == state.orders[NewFillIds[i]]
                  IN  /\ fill.token_id = order.token_id
                      /\ fill.side = order.side
                      /\ fill.price = order.price
                      /\ fill.size = order.size
                      /\ fill.is_simulated]_vars

\* a call returned two fills, one at a price the market met exactly, and
\* left an order of the same token open
C17_Witness ==
    /\ call.op = "check_fills"
    /\ Len(last_fills) = 2
    /\ \E i \in DOMAIN last_fills :
           /\ last_fills[i].side = "Buy"
           /\ last_fills[i].price = call.snapshot.best_ask
    /\ \E id \in DOMAIN state.orders : state.orders[id].token_id = call.snapshot.token_id

\* ------------------------------------------------------------------------
\* C18  cancel_order on an id that is not open (never placed, filled or
\* cancelled before) returns Ok and leaves the order map, the journal and
\* next_id as they are; on an open id it removes that order and no other.
\* ------------------------------------------------------------------------
C18_CancelOrder ==
    [][call'.op = "cancel_order" =>
           /\ call'.result = "Ok"
           /\ state'.fills = state.fills
           /\ state'.next_id = state.next_id
           /\ DOMAIN state'.orders = DOMAIN state.orders \ {call'.id}
           /\ \A id \in DOMAIN state'.orders : state'.orders[id] = state.orders[id]
           /\ call'.id \notin DOMAIN state.orders => state' = state]_vars

\* cancel_order was called on an id that had been filled, while another
\* order was open; and on an id that was never placed
C18_Witness ==
    /\ call.op = "cancel_order"
    /\ call.id \in IdsOf(fill_ids)
    /\ DOMAIN state.orders # {}

C18_WitnessNeverPlaced ==
    /\ call.op = "cancel_order"
    /\ call.id = OrderId(state.next_id)
    /\ DOMAIN state.orders # {}

\* ------------------------------------------------------------------------
\* C19  The fill journal is append-only: every call leaves the previous
\* journal as a prefix; check_fills extends it by exactly the fills it
\* returns; place_order, cancel_order, cancel_all and open_orders leave it
\* as it is.
\* ------------------------------------------------------------------------
C19_JournalAppendOnly ==
    [][/\ Len(state'.fills) >= Len(state.fills)
       /\ SubSeq(state'.fills, 1, Len(state.fills)) = state.fills
       /\ call'.op = "check_fills" => state'.fills = state.fills \o last_fills'
       /\ call'.op # "check_fills" => state'.fills = state.fills]_vars

\* a check_fills call appended its fill behind the fills of an earlier
\* call, and other calls were made after that
C19_Witness ==
    /\ Len(state.fills) >= 2
    /\ Len(last_fills) = 1
    /\ last_fills[1] = state.fills[Len(state.fills)]
    /\ call.op = "cancel_all"

\* ------------------------------------------------------------------------
\* The executor called by concurrent tasks (Arc<Mutex<PaperState>>)
\* ------------------------------------------------------------------------

ConcPlacements ==
    {o \in ClientPlacements :
        /\ o[1] = "tokA"
        /\ (o[2] = "Buy" /\ o[3] = Cents(48)) \/ (o[2] = "Sell" /\ o[3] = Cents(52))}

\* the book that fills the Buys at 0.48 and leaves the Sells open
ConcSnapshots == {s \in ClientSnapshots : s.token_id = "tokA" /\ s.best_ask = Cents(48)}

\* a lock that is granted whoever holds it
can_lock_always(lock, t) == TRUE

\* self.state.lock().await completes for task t
can_lock(lock, t) == lock = "free"

\* task t enters a method of the executor and waits for the mutex
Call(t, op, id, order, snapshot) ==
    /\ conc.task[t].pc = "idle"
    /\ op = "place_order" => state.next_id <= MaxOrders
    /\ conc' = [conc EXCEPT !.task[t] =
                    [IdleTask EXCEPT !.pc = "lock", !.op = op, !.id = id,
                                     !.order = order, !.snapshot = snapshot]]
    /\ UNCHANGED <<state, fill_ids, last_fills, managerVars, call, calc, feed>>

\* let state = self.state.lock().await
Lock(t) ==
    /\ conc.task[t].pc = "lock"
    /\ can_lock(conc.lock, t)
    /\ conc' = [conc EXCEPT !.lock = t,
                            !.task[t].pc = IF conc.task[t].op = "check_fills"
                                           THEN "scan" ELSE "body"]
    /\ UNCHANGED <<state, fill_ids, last_fills, managerVars, call, calc, feed>>

\* the body of place_order, cancel_order, cancel_all or open_orders
Body(t) ==
    LET task == conc.task[t]
        placed == place_order(state, task.order[1], task.order[2], task.order[3],
                              task.order[4])
    IN  /\ task.pc = "body"
        /\ state' = CASE task.op = "place_order" -> placed.st
                      [] task.op = "cancel_order" -> cancel_order(state, task.id)
                      [] task.op = "cancel_all" -> cancel_all(state)
                      [] task.op = "open_orders" -> state
        /\ conc' = [conc EXCEPT !.task[t].pc = "return",
                                !.task[t].ret =
                                    CASE task.op = "place_order" -> placed.id
                                      [] task.op = "open_orders" -> open_orders(state)
                                      [] OTHER -> "Ok"]
        /\ UNCHANGED <<fill_ids, last_fills, managerVars, call, calc, feed>>

\* check_fills: the loop over state.orders collects filled_ids and fills
ScanOrders(t) ==
    LET task == conc.task[t]
    IN  /\ task.pc = "scan"
        /\ \E filled_ids \in IterationOrders(CrossingIds(state, task.snapshot)) :
               conc' = [conc EXCEPT
                           !.task[t].pc = "remove",
                           !.task[t].filled_ids = filled_ids,
                           !.task[t].fills =
                               [i \in DOMAIN filled_ids |-> FillOf(state.orders[filled_ids[i]])]]
        /\ UNCHANGED <<state, fill_ids, last_fills, managerVars, call, calc, feed>>

\* check_fills: the filled orders are removed from the book
RemoveFilled(t) ==
    LET task == conc.task[t]
    IN  /\ task.pc = "remove"
        /\ state' = [state EXCEPT !.orders = MapRemove(@, IdsOf(task.filled_ids))]
        /\ conc' = [conc EXCEPT !.task[t].pc = "append"]
        /\ UNCHANGED <<fill_ids, last_fills, managerVars, call, calc, feed>>

\* check_fills: the fills are pushed to the journal
AppendFills(t) ==
    LET task == conc.task[t]
    IN  /\ task.pc = "append"
        /\ state' = [state EXCEPT !.fills = @ \o task.fills]
        /\ fill_ids' = fill_ids \o task.filled_ids
        /\ conc' = [conc EXCEPT !.task[t].pc = "return", !.task[t].ret = task.fills]
        /\ UNCHANGED <<last_fills, managerVars, call, calc, feed>>

\* the method returns and the guard is dropped
Return(t) ==
    LET task == conc.task[t]
    IN  /\ task.pc = "return"
        /\ conc' = [conc EXCEPT !.lock = "free", !.seq = state, !.task[t] = IdleTask]
        /\ last_fills' = IF task.op = "check_fills" THEN task.ret ELSE last_fills
        /\ UNCHANGED <<state, fill_ids, managerVars, call, calc, feed>>

NextConc ==
    \/ \E t \in Tasks, o \in ConcPlacements : Call(t, "place_order", NoOrderId, o, NoSnapshot)
    \/ \E t \in Tasks, n \in 1..MaxOrders :
           Call(t, "cancel_order", OrderId(n), <<>>, NoSnapshot)
    \/ \E t \in Tasks : Call(t, "cancel_all", NoOrderId, <<>>, NoSnapshot)
    \/ \E t \in Tasks : Call(t, "open_orders", NoOrderId, <<>>, NoSnapshot)
    \/ \E t \in Tasks, snapshot \in ConcSnapshots :
           Call(t, "check_fills", NoOrderId, <<>>, snapshot)
    \/ \E t \in Tasks : Lock(t)
    \/ \E t \in Tasks : Body(t)
    \/ \E t \in Tasks : ScanOrders(t)
    \/ \E t \in Tasks : RemoveFilled(t)
    \/ \E t \in Tasks : AppendFills(t)
    \/ \E t \in Tasks : Return(t)

SpecConc == Init /\ [][NextConc]_vars

\* the call of task, run alone on the executor state st: what it returns
\* and the state it leaves
Sequential(st, task) ==
    CASE task.op = "place_order" ->
             LET r == place_order(st, task.order[1], task.order[2], task.order[3],
                                  task.order[4])
             IN  [ret |-> r.id, st |-> r.st]
      [] task.op = "cancel_order" -> [ret |-> "Ok", st |-> cancel_order(st, task.id)]
      [] task.op = "cancel_all" -> [ret |-> "Ok", st |-> cancel_all(st)]
      [] task.op = "open_orders" -> [ret |-> open_orders(st), st |-> st]
      [] task.op = "check_fills" ->
             LET r == check_fills(st, task.snapshot, task.filled_ids)
             IN  [ret |-> r.fills, st |-> r.st]

InsideMethod(t) == conc.task[t].pc \notin {"idle", "lock"}

\* ------------------------------------------------------------------------
\* C20  The methods of the paper executor are atomic with respect to each
\* other: at most one task is inside a method; every call returns what it
\* returns when run alone on the state the previous call left, and leaves
\* the state that run leaves; no order is filled by two check_fills calls;
\* open_orders returns no order whose fill is in the journal.
\* ------------------------------------------------------------------------
C20_MethodsAreAtomic ==
    /\ \A t, u \in Tasks : (InsideMethod(t) /\ InsideMethod(u)) => t = u
    /\ \A i, j \in DOMAIN fill_ids : i # j => fill_ids[i] # fill_ids[j]
    /\ conc.lock = "free" => state = conc.seq
    /\ \A t \in Tasks :
           conc.task[t].pc = "return" =>
               /\ state = Sequential(conc.seq, conc.task[t]).st
               /\ conc.task[t].ret = Sequential(conc.seq, conc.task[t]).ret
               /\ conc.task[t].op = "open_orders" =>
                      \A o \in conc.task[t].ret : o.id \notin IdsOf(fill_ids)

\* a check_fills call is about to return a fill while the other task waits
\* for the mutex with a check_fills call on the same snapshot
C20_Witness ==
    \E t, u \in Tasks :
        /\ t # u
        /\ conc.task[t].pc = "return"
        /\ conc.task[t].op = "check_fills"
        /\ Len(conc.task[t].ret) >= 1
        /\ conc.task[u].pc = "lock"
        /\ conc.task[u].op = "check_fills"
        /\ conc.task[u].snapshot = conc.task[t].snapshot

\* ------------------------------------------------------------------------
\* Quoter::quote on its own, over books, inventories and market configs
\* ------------------------------------------------------------------------

\* best bid / best ask of the quoted books: near both ends of the price
\* range, mid-range, and with midpoints on and between ticks
QuoterBooks ==
    {<<Cents(1), Cents(2)>>, <<Cents(1), Cents(3)>>, <<Cents(40), Cents(47)>>,
     <<Cents(49), Cents(50)>>, <<Cents(49), Cents(51)>>, <<Cents(97), Cents(99)>>,
     <<Cents(98), Cents(99)>>}

QuoterSnapshots == {MarketSnapshot("tokA", l[1], l[2]) : l \in QuoterBooks}

\* positions from 10 short to 10 long, entered at 0.50
QuoterInventories ==
    {[NewPosition("tokA") EXCEPT !.net_position = Int2Dec(n), !.avg_entry = Cents(50)] :
        n \in -10..10}

\* market configs: spreads of 1%, 3% and 20%; skew factors 0, 0.001, 0.01
\* and 0.05; nominal sizes 0.5, 2, 5 and 10; no inventory cap, a cap of 5
\* (the inventories go beyond it) or of 10
QuoterConfigs ==
    {[name |-> "A", token_id |-> "tokA", spread_bps |-> b, size |-> z,
      max_inventory |-> Int2Dec(m), skew_factor |-> k] :
        b \in {100, 300, 2000},
        z \in {Scale \div 2, Int2Dec(2), Int2Dec(5), Int2Dec(10)},
        m \in {0, 5, 10},
        k \in {0, 10, 100, 500}}

\* Quoter::quote(&snapshot, &inventory, &config), evaluated once
Quote(snapshot, inventory, config) ==
    /\ calc = NoCalc
    /\ calc' = [fn |-> "quote", snapshot |-> snapshot, inventory |-> inventory,
                config |-> config, out |-> quote(snapshot, inventory, config)]
    /\ UNCHANGED <<engineVars, feed>>

NextQuoter ==
    \E snapshot \in QuoterSnapshots, inventory \in QuoterInventories,
       config \in QuoterConfigs :
        Quote(snapshot, inventory, config)

SpecQuoter == Init /\ [][NextQuoter]_vars

\* the bid and the ask before rounding and clamping, as exact numbers:
\* mid -/+ spread_bps/10000/2 - net_position * skew_factor
HalfSpread(config) == (config.spread_bps * Scale) \div 20000

Skew(inventory, config) == (inventory.net_position * config.skew_factor) \div Scale

ContinuousBid(snapshot, inventory, config) ==
    snapshot.midpoint - HalfSpread(config) - Skew(inventory, config)

ContinuousAsk(snapshot, inventory, config) ==
    snapshot.midpoint + HalfSpread(config) - Skew(inventory, config)

\* the largest multiple of 0.01 that is <= x, the smallest that is >= x
TickBelow(x) == (x \div Tick) * Tick

TickAbove(x) == -(((-x) \div Tick) * Tick)

Clamped(x) == IF x < Cents(1) THEN Cents(1) ELSE IF x > Cents(99) THEN Cents(99) ELSE x

\* x * 100 is an integer in [1, 99]
OnTickInRange(x) == \E c \in 1..99 : x = Cents(c)

C21_WitnessNone ==
    /\ calc.fn = "quote"
    /\ ~calc.out.some
    /\ ContinuousBid(calc.snapshot, calc.inventory, calc.config) > Cents(99)

\* the inventory of QuoterInventories with no position
FlatInventory == [NewPosition("tokA") EXCEPT !.avg_entry = Cents(50)]

\* ------------------------------------------------------------------------
\* C22  Skew direction: with snapshot and config fixed and skew_factor > 0,
\* the bid and the ask of the quote do not increase when net_position
\* increases (over the inventories that yield a quote); so a long
\* inventory quotes at or below the flat one, a short one at or above it.
\* ------------------------------------------------------------------------
C22_SkewDirection ==
    (calc.fn = "quote" /\ calc.out.some /\ calc.config.skew_factor > ZERO) =>
        \A other \in QuoterInventories :
            LET q == quote(calc.snapshot, other, calc.config)
            IN  (q.some /\ other.net_position > calc.inventory.net_position) =>
                    /\ q.bid_price <= calc.out.bid_price
                    /\ q.ask_price <= calc.out.ask_price

\* a short inventory whose bid and ask are both above those of the flat
\* inventory, which quotes as well
C22_Witness ==
    /\ calc.fn = "quote"
    /\ calc.out.some
    /\ calc.config.skew_factor > ZERO
    /\ calc.inventory.net_position < ZERO
    /\ LET q == quote(calc.snapshot, FlatInventory, calc.config)
       IN  /\ q.some
           /\ q.bid_price < calc.out.bid_price
           /\ q.ask_price < calc.out.ask_price

\* ------------------------------------------------------------------------
\* C23  Adverse-selection safety as claimed: whenever quote returns
\* Some(q), q.bid_price <= mid - half_spread - skew and
\* q.ask_price >= mid + half_spread - skew.
\* ------------------------------------------------------------------------
C23_NeverInsideContinuous ==
    (calc.fn = "quote" /\ calc.out.some) =>
        /\ calc.out.bid_price <= ContinuousBid(calc.snapshot, calc.inventory, calc.config)
        /\ calc.out.ask_price >= ContinuousAsk(calc.snapshot, calc.inventory, calc.config)

\* ------------------------------------------------------------------------
\* C23 (amended)  Whenever quote returns Some(q), q.bid_price is at most
\* the larger of the continuous bid and 0.01, and q.ask_price is at least
\* the smaller of the continuous ask and 0.99: a quote is inside the
\* continuous prices only where the clamp to [0.01, 0.99] put it.
\* ------------------------------------------------------------------------
C23_NeverInsideUpToClamp ==
    (calc.fn = "quote" /\ calc.out.some) =>
        /\ calc.out.bid_price <=
               Max(ContinuousBid(calc.snapshot, calc.inventory, calc.config), Cents(1))
        /\ calc.out.ask_price >=
               Min(ContinuousAsk(calc.snapshot, calc.inventory, calc.config), Cents(99))

\* a quote inside the range whose bid was rounded down and whose ask was
\* rounded up, both from between two ticks
C23_Witness ==
    /\ calc.fn = "quote"
    /\ calc.out.some
    /\ calc.out.bid_price > Cents(1)
    /\ calc.out.ask_price < Cents(99)
    /\ calc.out.bid_price < ContinuousBid(calc.snapshot, calc.inventory, calc.config)
    /\ calc.out.ask_price > ContinuousAsk(calc.snapshot, calc.inventory, calc.config)

\* u = |net_position| / max_inventory, for max_inventory > 0
Utilization(inventory, config) ==
    (Abs(inventory.net_position) * Scale) \div config.max_inventory

\* the size the throttle gives: cfg.size up to u = 0.8, and above it
\* max(cfg.size * max(1 - ((u - 0.8)/0.2)*0.8, 0.2), 1)
ThrottledSize(inventory, config) ==
    LET u == Utilization(inventory, config)
        reduction == Scale - 4 * (u - Cents(80))
        factor == IF reduction > Cents(20) THEN reduction ELSE Cents(20)
        reduced == (config.size * factor) \div Scale
    IN  IF u <= Cents(80)
        THEN config.size
        ELSE IF reduced > Int2Dec(1) THEN reduced ELSE Int2Dec(1)

\* ------------------------------------------------------------------------
\* C24  Size throttle: with max_inventory > 0 and u = |net| / max_inventory
\* the quoted size is cfg.size when u <= 0.8 and
\* max(cfg.size * max(1 - ((u - 0.8)/0.2)*0.8, 0.2), 1) when u > 0.8 (full
\* size at u = 0.8, a fifth of it from u = 1.0 on, never below 1 unit);
\* with max_inventory = 0 the size is cfg.size.
\* ------------------------------------------------------------------------
C24_SizeThrottle ==
    (calc.fn = "quote" /\ calc.out.some) =>
        /\ calc.config.max_inventory = ZERO => calc.out.size = calc.config.size
        /\ calc.config.max_inventory > ZERO =>
               /\ calc.out.size = ThrottledSize(calc.inventory, calc.config)
               /\ Utilization(calc.inventory, calc.config) = Cents(80) =>
                      calc.out.size = calc.config.size
               /\ Utilization(calc.inventory, calc.config) >= Int2Dec(1) =>
                      calc.out.size = Max(calc.config.size \div 5, Int2Dec(1))
               /\ Utilization(calc.inventory, calc.config) > Cents(80) =>
                      calc.out.size >= Int2Dec(1)

\* nine tenths of the cap are used and a nominal size of 10 is quoted as 6
C24_Witness ==
    /\ calc.fn = "quote"
    /\ calc.out.some
    /\ calc.config.max_inventory = Int2Dec(10)
    /\ calc.inventory.net_position = Int2Dec(9)
    /\ calc.config.size = Int2Dec(10)
    /\ calc.out.size = Int2Dec(6)

\* the cap is exceeded and a nominal size of 2 is quoted as 1, not as 0.4
C24_WitnessMinimum ==
    /\ calc.fn = "quote"
    /\ calc.out.some
    /\ calc.config.max_inventory > ZERO
    /\ Abs(calc.inventory.net_position) > calc.config.max_inventory
    /\ calc.config.size = Int2Dec(2)
    /\ calc.out.size = Int2Dec(1)

\* ------------------------------------------------------------------------
\* InventoryPosition::apply_fill on its own: one position, a run of fills
\* ------------------------------------------------------------------------

\* fills of 4 or 6 units at 0.40 or 0.50, on either side
InventoryFills ==
    {[token_id |-> "tokA", side |-> d, price |-> Cents(c), size |-> Int2Dec(z),
      is_simulated |-> TRUE] : d \in Side, c \in {40, 50}, z \in {4, 6}}

\* the fills applied so far, and the position before the first and after
\* each of them
FillsApplied == IF calc.fn = "apply_fill" THEN calc.fills ELSE <<>>

PositionTrail == IF calc.fn = "apply_fill" THEN calc.trail ELSE <<NewPosition("tokA")>>

\* position.apply_fill(&fill)
ApplyFill(fill) ==
    /\ calc.fn \in {"none", "apply_fill"}
    /\ Len(FillsApplied) < MaxFills
    /\ calc' = [fn |-> "apply_fill",
                fills |-> Append(FillsApplied, fill),
                trail |-> Append(PositionTrail,
                                 apply_fill(PositionTrail[Len(PositionTrail)], fill))]
    /\ UNCHANGED <<engineVars, feed>>

NextInventory == \E fill \in InventoryFills : ApplyFill(fill)

SpecInventory == Init /\ [][NextInventory]_vars

\* size * (a price difference), for a whole number of units
Times(size, diff) == (size \div Scale) * diff

\* the i-th fill is larger than the opposite position it meets
Flips(i) ==
    LET p0 == PositionTrail[i].net_position
        fill == FillsApplied[i]
    IN  \/ (p0 > ZERO /\ fill.side = "Sell" /\ fill.size > p0)
        \/ (p0 < ZERO /\ fill.side = "Buy" /\ fill.size > -p0)

\* ------------------------------------------------------------------------
\* C25  Position flip: a fill of size s at price f that meets an opposite
\* position p0 with |p0| < s realizes P&L on |p0| only (|p0|*(f - avg_entry)
\* for a long, |p0|*(avg_entry - f) for a short), leaves net_position at
\* p0 -/+ s and resets avg_entry to f.
\* ------------------------------------------------------------------------
C25_PositionFlip ==
    \A i \in DOMAIN FillsApplied :
        Flips(i) =>
            LET before == PositionTrail[i]
                after == PositionTrail[i + 1]
                fill == FillsApplied[i]
            IN  /\ after.avg_entry = fill.price
                /\ fill.side = "Sell" =>
                       /\ after.net_position = before.net_position - fill.size
                       /\ after.realized_pnl = before.realized_pnl
                              + Times(before.net_position, fill.price - before.avg_entry)
                /\ fill.side = "Buy" =>
                       /\ after.net_position = before.net_position + fill.size
                       /\ after.realized_pnl = before.realized_pnl
                              + Times(-before.net_position, before.avg_entry - fill.price)

\* buy 4 @ 0.40 then sell 6 @ 0.50: net -2, realized 0.40, avg_entry 0.50
C25_Witness ==
    /\ Len(FillsApplied) = 2
    /\ FillsApplied[1].side = "Buy" /\ FillsApplied[1].size = Int2Dec(4)
    /\ FillsApplied[1].price = Cents(40)
    /\ FillsApplied[2].side = "Sell" /\ FillsApplied[2].size = Int2Dec(6)
    /\ FillsApplied[2].price = Cents(50)
    /\ PositionTrail[3].net_position = -Int2Dec(2)
    /\ PositionTrail[3].realized_pnl = Cents(40)
    /\ PositionTrail[3].avg_entry = Cents(50)

\* the fills i and i+1 are a round trip of one size from a flat position
RoundTrip(i) ==
    /\ PositionTrail[i].net_position = ZERO
    /\ FillsApplied[i].side # FillsApplied[i + 1].side
    /\ FillsApplied[i].size = FillsApplied[i + 1].size

\* ------------------------------------------------------------------------
\* C26  Inventory round trip: from a flat position a Buy of X at p followed
\* by a Sell of X at q (or a Sell at p_sell followed by a Buy at p_buy)
\* leaves net_position = 0, adds X*(q - p) (X*(p_sell - p_buy)) to
\* realized_pnl, nothing when the prices are equal, and adds 2 to
\* fill_count.
\* ------------------------------------------------------------------------
C26_RoundTrip ==
    \A i \in DOMAIN FillsApplied :
        (i + 1 \in DOMAIN FillsApplied /\ RoundTrip(i)) =>
            LET before == PositionTrail[i]
                after == PositionTrail[i + 2]
                buy == IF FillsApplied[i].side = "Buy"
                       THEN FillsApplied[i] ELSE FillsApplied[i + 1]
                sell == IF FillsApplied[i].side = "Sell"
                        THEN FillsApplied[i] ELSE FillsApplied[i + 1]
            IN  /\ after.net_position = ZERO
                /\ after.realized_pnl =
                       before.realized_pnl + Times(buy.size, sell.price - buy.price)
                /\ buy.price = sell.price => after.realized_pnl = before.realized_pnl
                /\ after.fill_count = before.fill_count + 2

\* a round trip at a profit that started from a position which had become
\* flat by an earlier fill
C26_Witness ==
    /\ Len(FillsApplied) = 4
    /\ RoundTrip(3)
    /\ PositionTrail[3].fill_count = 2
    /\ PositionTrail[5].realized_pnl > PositionTrail[3].realized_pnl

\* ------------------------------------------------------------------------
\* RiskManager::check_order and ::should_kill_switch_with_prices on their
\* own: each behaviour evaluates one of them once
\* ------------------------------------------------------------------------

\* inventories of -10..10 units entered at 0.50
RiskInventories ==
    {[NewPosition("tokA") EXCEPT !.net_position = Int2Dec(n), !.avg_entry = Cents(50)] :
        n \in -10 .. 10}

\* quotes of 1, 2, 5 and 10 units, and of half a unit
RiskQuotes ==
    {[token_id |-> "tokA", bid_price |-> Cents(48), ask_price |-> Cents(52), size |-> z] :
        z \in {Int2Dec(1), Int2Dec(2), Int2Dec(5), Int2Dec(10), Scale \div 2}}

\* risk limits: per-market 0, 5, 6 or 10 units, unrealized loss 0, 0.50, 4 or 5
RiskConfigs ==
    {[max_position_per_market |-> Int2Dec(m), max_total_exposure |-> Int2Dec(8),
      max_unrealized_loss |-> u] :
        m \in {0, 5, 6, 10}, u \in {ZERO, Cents(50), Int2Dec(4), Int2Dec(5)}}

\* positions of -10, 0 or 10 units entered at 0.40 or 0.50
KillPositions ==
    {[NewPosition(t) EXCEPT !.net_position = Int2Dec(n), !.avg_entry = Cents(c)] :
        t \in {"tokA", "tokB"}, n \in {-10, 0, 10}, c \in {40, 50}}

KillMids == {Cents(10), Cents(45), Cents(50), Cents(60), Cents(90)}

\* portfolios of no, one or two positions, with one mid price each
KillPortfolios ==
    {<<>>}
        \cup {<<p>> : p \in {q \in KillPositions : q.token_id = "tokA"}}
        \cup {<<p, q>> : p \in {r \in KillPositions : r.token_id = "tokA"},
                         q \in {r \in KillPositions : r.token_id = "tokB"}}

KillPrices(ps) ==
    IF Len(ps) = 0 THEN {<<>>}
    ELSE IF Len(ps) = 1 THEN {<<m>> : m \in KillMids}
    ELSE {<<m, n>> : m \in KillMids, n \in KillMids}

\* RiskManager::check_order(&inventory, &quote, &config)
CheckOrder(inventory, q, config) ==
    /\ calc = NoCalc
    /\ calc' = [fn |-> "check_order", inventory |-> inventory, quote |-> q,
                config |-> config, out |-> check_order(inventory, q, config)]
    /\ UNCHANGED <<engineVars, feed>>

\* RiskManager::should_kill_switch_with_prices(&positions, &mid_prices, &config)
ShouldKillSwitch(ps, mid_prices, config) ==
    /\ calc = NoCalc
    /\ calc' = [fn |-> "should_kill_switch_with_prices", positions |-> ps,
                mid_prices |-> mid_prices, config |-> config,
                out |-> should_kill_switch_with_prices(ps, mid_prices, config)]
    /\ UNCHANGED <<engineVars, feed>>

NextRisk ==
    \/ \E inventory \in RiskInventories, q \in RiskQuotes, config \in RiskConfigs :
            CheckOrder(inventory, q, config)
    \/ \E ps \in KillPortfolios, config \in RiskConfigs :
            \E mid_prices \in KillPrices(ps) : ShouldKillSwitch(ps, mid_prices, config)

SpecRisk == Init /\ [][NextRisk]_vars

\* ------------------------------------------------------------------------
\* C27  check_order returns RiskBreach if and only if
\* |net_position + quote.size| > max_position_per_market or
\* |net_position - quote.size| > max_position_per_market; a hypothetical
\* position exactly equal to the limit passes.
\* ------------------------------------------------------------------------
C27_CheckOrderIff ==
    calc.fn = "check_order" =>
        LET n == calc.inventory.net_position
            z == calc.quote.size
            limit == calc.config.max_position_per_market
            over(x) == x > limit \/ -x > limit
        IN  (calc.out # "Ok") <=> (over(n + z) \/ over(n - z))

\* a bid fill would land exactly on the limit, and the order passes
C27_Witness ==
    /\ calc.fn = "check_order"
    /\ calc.inventory.net_position + calc.quote.size = calc.config.max_position_per_market
    /\ calc.inventory.net_position > ZERO
    /\ calc.out = "Ok"

\* only the bid fill would breach; only the ask fill would breach
C27_WitnessBid ==
    /\ calc.fn = "check_order"
    /\ calc.inventory.net_position - calc.quote.size > ZERO
    /\ calc.out = "RiskBreach(bid)"

C27_WitnessAsk ==
    /\ calc.fn = "check_order"
    /\ calc.inventory.net_position + calc.quote.size < ZERO
    /\ calc.out = "RiskBreach(ask)"

\* sum over the positions of net_position * (mid - avg_entry)
RECURSIVE TotalUnrealized(_, _)
TotalUnrealized(ps, mid_prices) ==
    IF ps = <<>>
    THEN ZERO
    ELSE Times(Head(ps).net_position, Head(mid_prices) - Head(ps).avg_entry)
            + TotalUnrealized(Tail(ps), Tail(mid_prices))

\* ------------------------------------------------------------------------
\* C28  should_kill_switch_with_prices returns true if and only if the sum
\* of the positions' unrealized P&L is negative and its magnitude is
\* strictly greater than max_unrealized_loss: a loss equal to the limit, a
\* profit or an empty portfolio does not trigger, and a gain in one position
\* offsets a loss in another.
\* ------------------------------------------------------------------------
C28_KillSwitchIff ==
    calc.fn = "should_kill_switch_with_prices" =>
        LET total == TotalUnrealized(calc.positions, calc.mid_prices)
        IN  /\ calc.out <=> (total < ZERO /\ -total > calc.config.max_unrealized_loss)
            /\ calc.positions = <<>> => ~calc.out
            /\ total >= ZERO => ~calc.out
            /\ -total = calc.config.max_unrealized_loss => ~calc.out

\* one position loses more than the limit, the other gains, and the switch
\* stays off
C28_Witness ==
    /\ calc.fn = "should_kill_switch_with_prices"
    /\ Len(calc.positions) = 2
    /\ -unrealized_pnl(calc.positions[1], calc.mid_prices[1])
            > calc.config.max_unrealized_loss
    /\ unrealized_pnl(calc.positions[2], calc.mid_prices[2]) > ZERO
    /\ ~calc.out

\* long 10 and short 10 entered at 0.50, mids 0.10 and 0.90, limit 5:
\* total -8, triggered
C28_WitnessTriggered ==
    /\ calc.fn = "should_kill_switch_with_prices"
    /\ Len(calc.positions) = 2
    /\ calc.positions[1].net_position = Int2Dec(10)
    /\ calc.positions[2].net_position = -Int2Dec(10)
    /\ calc.positions[1].avg_entry = Cents(50) /\ calc.positions[2].avg_entry = Cents(50)
    /\ calc.mid_prices = <<Cents(10), Cents(90)>>
    /\ calc.config.max_unrealized_loss = Int2Dec(5)
    /\ calc.out

\* a loss exactly equal to the limit
C28_WitnessAtLimit ==
    /\ calc.fn = "should_kill_switch_with_prices"
    /\ calc.positions # <<>>
    /\ calc.config.max_unrealized_loss > ZERO
    /\ -TotalUnrealized(calc.positions, calc.mid_prices) = calc.config.max_unrealized_loss
    /\ ~calc.out

\* ------------------------------------------------------------------------
\* Feed (crates/feed/src/book.rs): from an order book to a snapshot
\* ------------------------------------------------------------------------

\* the price strings of the levels of a book
PriceStrings == {"0.47", "0.48", "0.5", "0.50", "0.52", "0.55", "abc"}

\* Decimal::from_str(&l.price).ok(): the value of a decimal literal, None
\* for a string that is not one
from_str(price) ==
    CASE price = "0.47" -> [some |-> TRUE, value |-> Cents(47)]
      [] price = "0.48" -> [some |-> TRUE, value |-> Cents(48)]
      [] price = "0.5" -> [some |-> TRUE, value |-> Cents(50)]
      [] price = "0.50" -> [some |-> TRUE, value |-> Cents(50)]
      [] price = "0.52" -> [some |-> TRUE, value |-> Cents(52)]
      [] price = "0.55" -> [some |-> TRUE, value |-> Cents(55)]
      [] OTHER -> None

\* levels.iter().filter_map(|l| Decimal::from_str(&l.price).ok())
RECURSIVE filter_map_price(_)
filter_map_price(levels) ==
    IF levels = <<>>
    THEN <<>>
    ELSE LET parsed == from_str(Head(levels).price)
         IN  IF parsed.some
             THEN <<parsed.value>> \o filter_map_price(Tail(levels))
             ELSE filter_map_price(Tail(levels))

\* Iterator::max and Iterator::min: None for an empty iterator
RECURSIVE iter_max(_)
iter_max(values) ==
    IF values = <<>>
    THEN None
    ELSE LET rest == iter_max(Tail(values))
         IN  IF rest.some /\ rest.value >= Head(values)
             THEN rest
             ELSE [some |-> TRUE, value |-> Head(values)]

RECURSIVE iter_min(_)
iter_min(values) ==
    IF values = <<>>
    THEN None
    ELSE LET rest == iter_min(Tail(values))
         IN  IF rest.some /\ rest.value < Head(values)
             THEN rest
             ELSE [some |-> TRUE, value |-> Head(values)]

\* to_snapshot emitting a locked book
to_snapshot_emits_locked(token_id, book) ==
    LET best_bid == iter_max(filter_map_price(book.bids))
        best_ask == iter_min(filter_map_price(book.asks))
    IN  IF ~best_bid.some \/ ~best_ask.some
        THEN None
        ELSE IF best_bid.value > best_ask.value
             THEN None
             ELSE [some |-> TRUE,
                   snapshot |-> MarketSnapshot(token_id, best_bid.value, best_ask.value)]

to_snapshot(token_id, book) ==
    LET best_bid == iter_max(filter_map_price(book.bids))
        best_ask == iter_min(filter_map_price(book.asks))
    IN  IF ~best_bid.some \/ ~best_ask.some
        THEN None
        ELSE IF best_bid.value >= best_ask.value
             THEN None
             ELSE [some |-> TRUE,
                   snapshot |-> MarketSnapshot(token_id, best_bid.value, best_ask.value)]

\* one side of a book: up to two levels, in any order
BookSides ==
    {<<>>}
        \cup {<<[price |-> p, size |-> "100"]>> : p \in PriceStrings}
        \cup {<<[price |-> p, size |-> "100"], [price |-> q, size |-> "50"]>> :
                p \in PriceStrings, q \in PriceStrings}

\* the OrderBookResponse values the CLOB can return for tokA
OrderBooks ==
    {[market |-> "test_market", asset_id |-> "tokA", bids |-> b, asks |-> a] :
        b \in BookSides, a \in BookSides}

\* book::to_snapshot(token_id, &book_resp)
ToSnapshot(book) ==
    /\ calc = NoCalc
    /\ calc' = [fn |-> "to_snapshot", book |-> book, out |-> to_snapshot("tokA", book)]
    /\ UNCHANGED <<engineVars, feed>>

NextBook == \E book \in OrderBooks : ToSnapshot(book)

SpecBook == Init /\ [][NextBook]_vars

\* the prices of the levels of one side that are decimal literals
LevelPrices(levels) ==
    {from_str(levels[i].price).value : i \in {j \in DOMAIN levels : from_str(levels[j].price).some}}

Highest(prices) == CHOOSE x \in prices : \A y \in prices : y <= x

Lowest(prices) == CHOOSE x \in prices : \A y \in prices : x <= y

\* ------------------------------------------------------------------------
\* C29  Every snapshot to_snapshot produces has best_bid < best_ask,
\* midpoint = (best_bid + best_ask)/2 and spread = best_ask - best_bid, with
\* best_bid the highest bid price and best_ask the lowest ask price of the
\* book; it produces None when the book is crossed or locked or when a side
\* is empty.
\* ------------------------------------------------------------------------
C29_SnapshotOfBook ==
    calc.fn = "to_snapshot" =>
        LET bids == LevelPrices(calc.book.bids)
            asks == LevelPrices(calc.book.asks)
        IN  /\ calc.out.some =>
                LET s == calc.out.snapshot
                IN  /\ s.best_bid < s.best_ask
                    /\ 2 * s.midpoint = s.best_bid + s.best_ask
                    /\ s.spread = s.best_ask - s.best_bid
                    /\ bids # {} /\ s.best_bid = Highest(bids)
                    /\ asks # {} /\ s.best_ask = Lowest(asks)
            /\ (calc.book.bids = <<>> \/ calc.book.asks = <<>>) => ~calc.out.some
            /\ (bids # {} /\ asks # {} /\ Highest(bids) >= Lowest(asks)) => ~calc.out.some

\* a snapshot of a book whose best levels are not the first ones
C29_Witness ==
    /\ calc.fn = "to_snapshot"
    /\ calc.out.some
    /\ Len(calc.book.bids) = 2 /\ Len(calc.book.asks) = 2
    /\ from_str(calc.book.bids[1].price).some
    /\ from_str(calc.book.asks[1].price).some
    /\ calc.out.snapshot.best_bid > from_str(calc.book.bids[1].price).value
    /\ calc.out.snapshot.best_ask < from_str(calc.book.asks[1].price).value

\* nothing for a locked book, and nothing for a crossed one
C29_WitnessLocked ==
    /\ calc.fn = "to_snapshot"
    /\ ~calc.out.some
    /\ calc.book.bids = <<[price |-> "0.5", size |-> "100"]>>
    /\ calc.book.asks = <<[price |-> "0.50", size |-> "100"]>>

C29_WitnessCrossed ==
    /\ calc.fn = "to_snapshot"
    /\ ~calc.out.some
    /\ calc.book.bids = <<[price |-> "0.55", size |-> "100"]>>
    /\ calc.book.asks = <<[price |-> "0.50", size |-> "100"]>>

\* ------------------------------------------------------------------------
\* Feed (crates/feed/src/manager.rs): the polling task, the broadcast
\* channel and the stream over its receiver
\* ------------------------------------------------------------------------

\* broadcast::channel::<MarketSnapshot>(256)
Capacity == 256

\* the books a poll of tokA can fetch: a valid one and a crossed one
FeedBooks ==
    {[market |-> "test_market", asset_id |-> "tokA",
      bids |-> <<[price |-> b, size |-> "100"]>>,
      asks |-> <<[price |-> "0.52", size |-> "80"]>>] : b \in {"0.48", "0.55"}}

\* one round of the polling loop for a token whose book was fetched: nothing
\* is sent for a book without a snapshot; tx.send fails when the receiver is
\* gone and the task returns, which drops the sender
FeedPoll(book) ==
    /\ ~feed.closed
    /\ feed.sent < MaxSends
    /\ LET out == to_snapshot("tokA", book)
       IN  feed' = IF ~out.some
                   THEN feed
                   ELSE IF feed.dropped
                        THEN [feed EXCEPT !.closed = TRUE]
                        ELSE [feed EXCEPT !.sent = @ + 1]
    /\ UNCHANGED <<engineVars, calc>>

\* rx.recv() returning Ok(snapshot): the receiver is within the retained
\* values and the stream yields the next one.  (recv never returns Closed
\* while the stream is polled: the sender is dropped only after a send
\* found the receiver gone.)
StreamRecv ==
    /\ ~feed.dropped
    /\ feed.next < feed.sent
    /\ feed.sent - feed.next <= Capacity
    /\ feed' = [feed EXCEPT !.next = @ + 1, !.last = feed.next + 1, !.lagged = 0]
    /\ UNCHANGED <<engineVars, calc>>

\* rx.recv() returning Err(Lagged(n)): the value the receiver was to read
\* has been overwritten; the receiver moves to the oldest value the channel
\* still holds, the stream logs n and calls recv again
StreamLagged ==
    /\ ~feed.dropped
    /\ feed.sent - feed.next > Capacity
    /\ feed' = [feed EXCEPT !.next = feed.sent - Capacity,
                            !.lagged = @ + feed.sent - Capacity - feed.next]
    /\ UNCHANGED <<engineVars, calc>>

\* the consumer drops the stream
StreamDrop ==
    /\ ~feed.dropped
    /\ feed' = [feed EXCEPT !.dropped = TRUE]
    /\ UNCHANGED <<engineVars, calc>>

NextFeed ==
    \/ \E book \in FeedBooks : FeedPoll(book)
    \/ StreamRecv
    \/ StreamLagged
    \/ StreamDrop

SpecFeed == Init /\ [][NextFeed]_vars

\* ------------------------------------------------------------------------
\* C30  Lag policy: when the consumer falls more than the channel capacity
\* (256) behind the producer the stream does not end, the overwritten
\* snapshots are skipped, and the consumer continues with the newest
\* available snapshot.
\* ------------------------------------------------------------------------
C30_LagPolicy ==
    [][/\ (feed'.lagged > feed.lagged) =>
            /\ ~feed'.dropped
            /\ feed'.next = feed.next + feed'.lagged - feed.lagged
            /\ feed'.next < feed'.sent
       /\ (feed.lagged > 0 /\ feed'.last # feed.last) => feed'.last = feed.sent]_vars

\* after a lag the stream goes on, with the oldest snapshot the channel
\* still holds: the first one that was not overwritten
C30_ContinuesWithOldestRetained ==
    [][/\ (feed'.lagged > feed.lagged) =>
            /\ ~feed'.dropped
            /\ feed'.next = feed.next + feed'.lagged - feed.lagged
            /\ feed'.next < feed'.sent
       /\ (feed.lagged > 0 /\ feed'.last # feed.last) =>
            /\ feed'.last = feed.last + feed.lagged + 1
            /\ feed'.last >= feed.sent - Capacity + 1]_vars

\* 257 snapshots sent and none received; the stream lagged by one and then
\* yielded snapshot 2
C30_Lagged ==
    /\ feed.sent = Capacity + 1
    /\ feed.last = 2
    /\ feed.next = 2

\* ------------------------------------------------------------------------
\* The feed and run_paper together: the polling task sends into the channel
\* and the run_paper loop polls the stream while it waits in select!
\* ------------------------------------------------------------------------

\* the snapshot of the book tokA has while the feed polls it
FeedSnapshot == MarketSnapshot("tokA", Cents(48), Cents(52))

\* snapshots.next() handing the manager a snapshot it was handed before
PipeRecvRedelivers ==
    /\ pc = "recv"
    /\ received < MaxSnapshots
    /\ ~feed.dropped
    /\ feed.next < feed.sent
    /\ feed.sent - feed.next <= Capacity
    /\ feed' = [feed EXCEPT !.last = feed.next, !.lagged = 0]
    /\ snap' = FeedSnapshot
    /\ received' = received + 1
    /\ mids' = MapInsert(mids, FeedSnapshot.token_id, FeedSnapshot.midpoint)
    /\ pc' = run_paper_next("recv")
    /\ UNCHANGED <<state, fill_ids, last_fills, positions, last, call, conc, calc>>

\* snapshots.next() yields Some(snapshot): rx.recv() returned Ok while the
\* loop waited in select!
PipeRecv ==
    /\ pc = "recv"
    /\ received < MaxSnapshots
    /\ ~feed.dropped
    /\ feed.next < feed.sent
    /\ feed.sent - feed.next <= Capacity
    /\ feed' = [feed EXCEPT !.next = @ + 1, !.last = feed.next + 1, !.lagged = 0]
    /\ snap' = FeedSnapshot
    /\ received' = received + 1
    /\ mids' = MapInsert(mids, FeedSnapshot.token_id, FeedSnapshot.midpoint)
    /\ pc' = run_paper_next("recv")
    /\ UNCHANGED <<state, fill_ids, last_fills, positions, last, call, conc, calc>>

\* rx.recv() returns Err(Lagged(n)) inside snapshots.next()
PipeLagged ==
    /\ pc = "recv"
    /\ StreamLagged

NextPipe ==
    \/ \E book \in FeedBooks : FeedPoll(book)
    \/ PipeRecv
    \/ PipeLagged
    \/ RunCheckFills
    \/ RunApplyFills
    \/ HandleSnapshot
    \/ CtrlC
    \/ Shutdown

SpecPipe == Init /\ [][NextPipe]_vars

\* ------------------------------------------------------------------------
\* C31  Snapshot ordering: the snapshots the manager handles are an
\* order-preserving subsequence of those the feed task sent (each one has a
\* higher number than the one before and was sent; some may be skipped on
\* lag), and the manager takes a snapshot only when it has finished with the
\* one before.
\* ------------------------------------------------------------------------
C31_SnapshotOrdering ==
    [][(received' # received) =>
            /\ feed'.last > feed.last
            /\ feed'.last <= feed.sent
            /\ pc = "recv"
            /\ (received > 0 => last.outcome # "none")]_vars

\* the manager has handled snapshot 2 after snapshot 1 was overwritten
C31_Witness ==
    /\ received = 1
    /\ feed.last = 2
    /\ feed.sent > Capacity
    /\ pc = "recv"

\* the manager has handled two snapshots in a row
C31_WitnessInOrder ==
    /\ received = 2
    /\ feed.last = 2
    /\ feed.lagged = 0
    /\ pc = "recv"

\* ------------------------------------------------------------------------
\* Start-up (crates/core/src/config.rs, crates/feed/src/gamma.rs,
\* crates/cli/src/main.rs): load and validate the configuration, discover
\* markets, build the order manager
\* ------------------------------------------------------------------------

\* validate accepting a market of size zero
validate_accepts_zero_size(config) ==
    IF config.markets = <<>> /\ ~config.auto_discover.some
    THEN "Config(no markets)"
    ELSE IF \E i \in DOMAIN config.markets : config.markets[i].spread_bps = 0
         THEN "Config(zero spread)"
         ELSE IF \E i \in DOMAIN config.markets : config.markets[i].size < ZERO
              THEN "Config(non-positive size)"
              ELSE "Ok"

\* Config::validate: "Ok" or the error.  Which of several offending markets
\* is named in the message is not modelled; a market with both faults is
\* reported for its spread, a later zero spread after an earlier bad size
\* for the size.
validate(config) ==
    IF config.markets = <<>> /\ ~config.auto_discover.some
    THEN "Config(no markets)"
    ELSE LET bad == {i \in DOMAIN config.markets :
                        \/ config.markets[i].spread_bps = 0
                        \/ config.markets[i].size <= ZERO}
         IN  IF bad = {}
             THEN "Ok"
             ELSE LET first == CHOOSE i \in bad : \A j \in bad : i <= j
                  IN  IF config.markets[first].spread_bps = 0
                      THEN "Config(zero spread)"
                      ELSE "Config(non-positive size)"

\* a string of n characters
Chars(n) == [i \in 1 .. n |-> "q"]

\* truncate_question(q, max)
truncate_question(q, max) ==
    IF Len(q) <= max THEN q ELSE SubSeq(q, 1, max - 3) \o <<".", ".", ".">>

\* GammaMarket::yes_token_id
yes_token_id(m) ==
    IF m.clob_token_ids # <<>>
    THEN [some |-> TRUE, value |-> m.clob_token_ids[1]]
    ELSE IF m.tokens # <<>>
         THEN [some |-> TRUE, value |-> m.tokens[1].token_id]
         ELSE None

\* candidates.sort_by(|a, b| b.volume_num.partial_cmp(&a.volume_num)): a
\* stable sort, highest volume first
RECURSIVE InsertByVolume(_, _)
InsertByVolume(m, sorted) ==
    IF sorted = <<>> \/ Head(sorted).volume_num <= m.volume_num
    THEN <<m>> \o sorted
    ELSE <<Head(sorted)>> \o InsertByVolume(m, Tail(sorted))

RECURSIVE sort_by_volume(_)
sort_by_volume(ms) ==
    IF ms = <<>> THEN <<>> ELSE InsertByVolume(Head(ms), sort_by_volume(Tail(ms)))

\* Vec::truncate
truncate(v, len) == IF Len(v) <= len THEN v ELSE SubSeq(v, 1, len)

\* GammaClient::discover_markets, given the markets fetch_markets returned
discover_markets(markets, config) ==
    LET candidates ==
            SelectSeq(markets, LAMBDA m : /\ m.active
                                          /\ ~m.closed
                                          /\ m.volume_num >= config.min_volume
                                          /\ yes_token_id(m).some)
        chosen == truncate(sort_by_volume(candidates), config.max_markets)
    IN  [i \in DOMAIN chosen |->
            [name |-> truncate_question(chosen[i].question, 50),
             token_id |-> yes_token_id(chosen[i]).value,
             spread_bps |-> config.spread_bps,
             size |-> config.size,
             max_inventory |-> config.max_inventory,
             skew_factor |-> config.skew_factor]]

\* OrderManager::new: the market configs keyed by token_id (a later entry
\* of the same token replaces an earlier one)
RECURSIVE collect_market_configs(_)
collect_market_configs(markets) ==
    IF markets = <<>>
    THEN EmptyMap
    ELSE LET m == markets[Len(markets)]
             front == collect_market_configs(SubSeq(markets, 1, Len(markets) - 1))
         IN  MapInsert(front, m.token_id, m)

\* [[markets]] entries of a config file, for one token
FileMarkets(name, token_id) ==
    {[name |-> name, token_id |-> token_id, spread_bps |-> b, size |-> Int2Dec(z),
      max_inventory |-> Int2Dec(10), skew_factor |-> 10] : b \in {0, 300}, z \in {-5, 0, 5}}

\* the [auto_discover] section: absent, or present with any spread and size
AutoDiscoverConfigs ==
    {None} \cup
    {[some |-> TRUE, min_volume |-> 10000, max_markets |-> k, spread_bps |-> b,
      size |-> Int2Dec(z), max_inventory |-> Int2Dec(10), skew_factor |-> 10] :
        k \in {1, 5}, b \in {0, 400}, z \in {0, 5}}

\* the configurations toml::from_str can produce
ConfigFiles ==
    {[mode |-> mode, risk |-> risk_config, auto_discover |-> ad, markets |-> ms] :
        mode \in {"Paper", "Live"},
        ad \in AutoDiscoverConfigs,
        ms \in {<<>>} \cup {<<a>> : a \in FileMarkets("A", "tokA")}
                      \cup {<<a, b>> : a \in FileMarkets("A", "tokA"),
                                       b \in FileMarkets("B", "tokB")}}

\* markets of the Gamma API: with clobTokenIds, with legacy tokens and a long
\* question, closed, below the minimum volume, without a token
GammaMarkets ==
    {[question |-> Chars(13), tokens |-> <<>>, clob_token_ids |-> <<"tokA", "tokA_no">>,
      active |-> TRUE, closed |-> FALSE, volume_num |-> 50000],
     [question |-> Chars(60), tokens |-> <<[token_id |-> "tokB"], [token_id |-> "tokB_no"]>>,
      clob_token_ids |-> <<>>, active |-> TRUE, closed |-> FALSE, volume_num |-> 20000],
     [question |-> Chars(13), tokens |-> <<>>, clob_token_ids |-> <<"tokC", "tokC_no">>,
      active |-> TRUE, closed |-> TRUE, volume_num |-> 90000],
     [question |-> Chars(13), tokens |-> <<>>, clob_token_ids |-> <<"tokD", "tokD_no">>,
      active |-> TRUE, closed |-> FALSE, volume_num |-> 5000],
     [question |-> Chars(13), tokens |-> <<>>, clob_token_ids |-> <<>>,
      active |-> TRUE, closed |-> FALSE, volume_num |-> 30000]}

\* what fetch_markets can return: up to two markets in any order
GammaResponses ==
    {<<>>} \cup {<<a>> : a \in GammaMarkets}
           \cup {<<a, b>> : a \in GammaMarkets, b \in GammaMarkets}

\* Config::load and the mode override of run; on success run goes on to
\* discovery when there are no [[markets]] and an [auto_discover] section
ConfigLoad(file, mode_override) ==
    /\ calc = NoCalc
    /\ LET validated == validate(file)
           config == IF mode_override.some THEN [file EXCEPT !.mode = mode_override.value]
                                           ELSE file
       IN  calc' = [fn |-> "run",
                    loaded |-> file,
                    validated |-> validated,
                    config |-> config,
                    market_configs |-> EmptyMap,
                    error |-> IF validated # "Ok" THEN "failed to load config" ELSE "none",
                    stage |-> IF validated # "Ok" THEN "failed"
                              ELSE IF config.markets = <<>> /\ config.auto_discover.some
                                   THEN "discover"
                                   ELSE "configured"]
    /\ UNCHANGED <<engineVars, feed>>

\* gamma.discover_markets(discover_config) returned Ok: run bails when
\* nothing was found and otherwise stores the markets in config.markets
Discover(markets) ==
    /\ calc.fn = "run"
    /\ calc.stage = "discover"
    /\ LET discovered == discover_markets(markets, calc.config.auto_discover)
       IN  calc' = IF discovered = <<>>
                   THEN [calc EXCEPT !.stage = "failed",
                                     !.error = "auto-discovery found no markets"]
                   ELSE [calc EXCEPT !.config.markets = discovered, !.stage = "configured"]
    /\ UNCHANGED <<engineVars, feed>>

\* gamma.discover_markets(discover_config) returned an error
DiscoverFails ==
    /\ calc.fn = "run"
    /\ calc.stage = "discover"
    /\ calc' = [calc EXCEPT !.stage = "failed", !.error = "auto-discovery failed"]
    /\ UNCHANGED <<engineVars, feed>>

\* match mode: OrderManager::new(executor, quoter, risk, config) in paper
\* mode, bail in live mode
NewManager ==
    /\ calc.fn = "run"
    /\ calc.stage = "configured"
    /\ calc' = IF calc.config.mode = "Paper"
               THEN [calc EXCEPT !.market_configs = collect_market_configs(calc.config.markets),
                                 !.stage = "running"]
               ELSE [calc EXCEPT !.stage = "failed",
                                 !.error = "live mode is not yet implemented"]
    /\ UNCHANGED <<engineVars, feed>>

NextStartup ==
    \/ \E file \in ConfigFiles,
          mode_override \in {None, [some |-> TRUE, value |-> "Paper"]} :
            ConfigLoad(file, mode_override)
    \/ \E markets \in GammaResponses : Discover(markets)
    \/ DiscoverFails
    \/ NewManager

SpecStartup == Init /\ [][NextStartup]_vars

\* ------------------------------------------------------------------------
\* C32  Config validation returns a Config error if and only if (markets is
\* empty and auto_discover is absent) or some market has spread_bps == 0 or
\* some market has size <= 0; otherwise it returns Ok.
\* ------------------------------------------------------------------------
C32_ValidateIff ==
    calc.fn = "run" =>
        LET markets == calc.loaded.markets
        IN  (calc.validated # "Ok") <=>
                \/ (Len(markets) = 0 /\ calc.loaded.auto_discover = None)
                \/ \E i \in 1 .. Len(markets) : markets[i].spread_bps = 0
                \/ \E i \in 1 .. Len(markets) : ~(markets[i].size > ZERO)

\* a configuration rejected only for the size 0 of its second market
C32_Witness ==
    /\ calc.fn = "run"
    /\ calc.validated = "Config(non-positive size)"
    /\ Len(calc.loaded.markets) = 2
    /\ calc.loaded.markets[1].spread_bps > 0 /\ calc.loaded.markets[1].size > ZERO
    /\ calc.loaded.markets[2].spread_bps > 0 /\ calc.loaded.markets[2].size = ZERO

\* accepted with no market but an [auto_discover] section; rejected with
\* neither
C32_WitnessDiscover ==
    /\ calc.fn = "run"
    /\ calc.validated = "Ok"
    /\ calc.loaded.markets = <<>>

C32_WitnessEmpty ==
    /\ calc.fn = "run"
    /\ calc.validated = "Config(no markets)"

\* ------------------------------------------------------------------------
\* C33  Configs are immutable after validation: the configuration the run
\* command hands to the OrderManager is the one that passed
\* Config::validate, and every MarketConfig the manager trades, discovered
\* markets included, has spread_bps > 0 and size > 0.
\* ------------------------------------------------------------------------
C33_ValidatedConfigTraded ==
    (calc.fn = "run" /\ calc.stage = "running") =>
        /\ calc.config.markets = calc.loaded.markets
        /\ \A t \in DOMAIN calc.market_configs :
                /\ calc.market_configs[t].spread_bps > 0
                /\ calc.market_configs[t].size > ZERO

\* the manager trades a discovered market with a zero spread and size
C33_Unvalidated ==
    /\ calc.fn = "run"
    /\ calc.stage = "running"
    /\ calc.validated = "Ok"
    /\ \E t \in DOMAIN calc.market_configs :
            /\ calc.market_configs[t].spread_bps = 0
            /\ calc.market_configs[t].size = ZERO

\* the markets of a validated file are traded as they were loaded
C33_FileMarketsValid ==
    (calc.fn = "run" /\ calc.stage = "running" /\ calc.loaded.markets # <<>>) =>
        /\ calc.config.markets = calc.loaded.markets
        /\ \A t \in DOMAIN calc.market_configs :
                /\ calc.market_configs[t].spread_bps > 0
                /\ calc.market_configs[t].size > ZERO

\* the open orders a snapshot crosses: Buys of its token at or above the
\* best ask, Sells of its token at or below the best bid
Crossed(st, snapshot) ==
    {id \in DOMAIN st.orders :
        /\ st.orders[id].token_id = snapshot.token_id
        /\ \/ st.orders[id].side = "Buy" /\ snapshot.best_ask <= st.orders[id].price
           \/ st.orders[id].side = "Sell" /\ snapshot.best_bid >= st.orders[id].price}

\* ------------------------------------------------------------------------
\* C34  check_fills(snapshot) leaves every order it does not fill
\* untouched: open orders of other tokens and non-crossing orders of the
\* snapshot's token stay in the order map with the same id, side, price and
\* size, and next_id is unchanged; when nothing crosses, the order map and
\* the fill journal are unchanged and the result is empty.
\* ------------------------------------------------------------------------
C34_CheckFillsFrame ==
    [][(call'.op = "check_fills") =>
            LET crossed == Crossed(state, call'.snapshot)
            IN  /\ \A id \in (DOMAIN state.orders) \ crossed :
                        /\ id \in DOMAIN state'.orders
                        /\ state'.orders[id] = state.orders[id]
                /\ state'.next_id = state.next_id
                /\ crossed = {} =>
                        /\ state'.orders = state.orders
                        /\ state'.fills = state.fills
                        /\ last_fills' = <<>>]_vars

\* one order was filled while another order of the same token and an order
\* of the other token stayed open
C34_Witness ==
    /\ call.op = "check_fills"
    /\ Len(last_fills) = 1
    /\ \E id \in DOMAIN state.orders : state.orders[id].token_id = call.snapshot.token_id
    /\ \E id \in DOMAIN state.orders : state.orders[id].token_id # call.snapshot.token_id

\* nothing crossed and three orders stayed open
C34_WitnessNoCross ==
    /\ call.op = "check_fills"
    /\ last_fills = <<>>
    /\ state.fills = <<>>
    /\ Cardinality(DOMAIN state.orders) = 3

\* the numbers of the ids that are open or were filled
NumbersInUse == {id[2] : id \in (DOMAIN state.orders) \cup IdsOf(fill_ids)}

\* ------------------------------------------------------------------------
\* C35  Order ids are unique for the life of a paper executor: place_order
\* returns "paper-N" with N going up by 1 per call from 1, an id is never
\* given out again after its order was filled, cancelled or cleared by
\* cancel_all, and place_order never overwrites an order that is open.
\* ------------------------------------------------------------------------
C35_OrderIdsUnique ==
    /\ state.next_id = 1
    /\ [](\A n \in NumbersInUse : n < state.next_id)
    /\ [][/\ state'.next_id >= state.next_id
          /\ (call'.op = "place_order" /\ state' # state) =>
                /\ call'.id = OrderId(state.next_id)
                /\ state'.next_id = state.next_id + 1
                /\ call'.id \notin DOMAIN state.orders
                /\ call'.id \notin IdsOf(fill_ids)
                /\ DOMAIN state'.orders = (DOMAIN state.orders) \cup {call'.id}
                /\ \A id \in DOMAIN state.orders : state'.orders[id] = state.orders[id]]_vars

\* paper-3 is placed after paper-1 was filled and paper-2 was cancelled
C35_Witness ==
    /\ call.op = "place_order"
    /\ call.id = OrderId(3)
    /\ OrderId(1) \in IdsOf(fill_ids)
    /\ DOMAIN state.orders = {OrderId(3)}

\* ------------------------------------------------------------------------
\* Dashboard (crates/core/src/dashboard.rs): the recent fills
\* ------------------------------------------------------------------------

\* DashboardState::new (the market rows, the mode and the start time play
\* no part in add_fill and are left out)
NewDashboard == [recent_fills |-> <<>>, total_realized_pnl |-> ZERO, total_fills |-> 0]

\* add_fill evicting the newest row instead of the oldest
add_fill_evicts_newest(dashboard, fill) ==
    LET pushed == Append(dashboard.recent_fills, fill)
    IN  [recent_fills |-> IF Len(pushed) > 50 THEN SubSeq(pushed, 1, Len(pushed) - 1)
                                              ELSE pushed,
         total_realized_pnl |-> fill.pnl_after,
         total_fills |-> dashboard.total_fills + 1]

\* DashboardState::add_fill
add_fill(dashboard, fill) ==
    LET pushed == Append(dashboard.recent_fills, fill)
    IN  [recent_fills |-> IF Len(pushed) > 50 THEN Tail(pushed) ELSE pushed,
         total_realized_pnl |-> fill.pnl_after,
         total_fills |-> dashboard.total_fills + 1]

\* the rows added so far, and the dashboard they were added to
RowsAdded == IF calc.fn = "add_fill" THEN calc.added ELSE <<>>

Dashboard == IF calc.fn = "add_fill" THEN calc.dashboard ELSE NewDashboard

\* the row of the n-th fill: realized P&L grows by a cent per fill
FillRow(n, side) ==
    [market_name |-> "A", side |-> side, price |-> Cents(50), size |-> Int2Dec(5),
     pnl_after |-> Cents(n)]

\* dashboard.add_fill(row); the runs hold at most one Sell
AddFill(side) ==
    /\ calc.fn \in {"none", "add_fill"}
    /\ Len(RowsAdded) < MaxAdds
    /\ side = "Sell" => \A i \in DOMAIN RowsAdded : RowsAdded[i].side = "Buy"
    /\ LET row == FillRow(Len(RowsAdded) + 1, side)
       IN  calc' = [fn |-> "add_fill",
                    added |-> Append(RowsAdded, row),
                    dashboard |-> add_fill(Dashboard, row)]
    /\ UNCHANGED <<engineVars, feed>>

NextDashboard == \E side \in Side : AddFill(side)

SpecDashboard == Init /\ [][NextDashboard]_vars

\* ------------------------------------------------------------------------
\* C36  Recent fills: after n add_fill calls recent_fills has length
\* min(n, 50) and holds the most recent fills in the order they were added
\* (the oldest is evicted first), and total_fills is n.
\* ------------------------------------------------------------------------
C36_RecentFills ==
    LET n == Len(RowsAdded)
        kept == IF n <= 50 THEN n ELSE 50
    IN  /\ Len(Dashboard.recent_fills) = kept
        /\ \A i \in 1 .. kept : Dashboard.recent_fills[i] = RowsAdded[n - kept + i]
        /\ Dashboard.total_fills = n

\* 52 rows added: the two oldest are gone and the third is the first kept
C36_Witness ==
    /\ Len(RowsAdded) = 52
    /\ Len(Dashboard.recent_fills) = 50
    /\ Dashboard.recent_fills[1] = RowsAdded[3]
    /\ Dashboard.recent_fills[50] = RowsAdded[52]
    /\ RowsAdded[3].side = "Sell"

\* no order, or one Buy and one Sell of one size, the Buy below the Sell,
\* both on the tick in [0.01, 0.99]
TwoSidedOrEmpty(orders) ==
    \/ orders = {}
    \/ /\ Cardinality(orders) = 2
       /\ \E b \in orders, a \in orders :
            /\ b.side = "Buy" /\ a.side = "Sell"
            /\ b.size = a.size
            /\ b.price < a.price
            /\ OnTickInRange(b.price) /\ OnTickInRange(a.price)

\* ------------------------------------------------------------------------
\* C37  Two-sided book: in paper mode, once a snapshot has been processed,
\* each token has either no open order or exactly two, one Buy and one Sell
\* of the same size with the Buy price below the Sell price, both on the
\* tick in [0.01, 0.99]; no token rests with a one-sided quote between
\* snapshots.
\* ------------------------------------------------------------------------
C37_TwoSidedBook ==
    (pc \in {"recv", "shutdown", "stopped"}) =>
        \A t \in Tokens : TwoSidedOrEmpty(OrdersOf(state, t))

\* a snapshot filled one side of a token's quote and left it two-sided
\* again, while the other token kept its own two orders
C37_Witness ==
    /\ pc = "recv"
    /\ last_fills # <<>>
    /\ last.outcome = "reconciled"
    /\ \A t \in ConfiguredTokens : Cardinality(OrdersOf(state, t)) = 2

\* the book was one-sided while the snapshot was being processed
C37_WitnessOneSidedInside ==
    /\ pc = "handle_snapshot"
    /\ Cardinality(OrdersOf(state, snap.token_id)) = 1

\* net_position of a token in a position map, 0 without a position
NetIn(ps, token_id) == IF token_id \in DOMAIN ps THEN ps[token_id].net_position ELSE ZERO

\* ------------------------------------------------------------------------
\* C38  At most one side fills per snapshot: in run_paper, with
\* best_bid < best_ask, one check_fills call never fills both the Buy and
\* the Sell order of a token, so a snapshot changes the token's
\* net_position by at most one quote size.
\* ------------------------------------------------------------------------
C38_OneSidePerSnapshot ==
    [][/\ (pc = "check_fills") =>
            /\ snap.best_bid < snap.best_ask
            /\ Len(last_fills') <= 1
            /\ ~\E i, j \in DOMAIN last_fills' :
                    last_fills'[i].side = "Buy" /\ last_fills'[j].side = "Sell"
       /\ (pc = "apply_fills") =>
            LET change == NetIn(positions', snap.token_id) - NetIn(positions, snap.token_id)
            IN  /\ last_fills = <<>> => change = ZERO
                /\ last_fills # <<>> => Abs(change) = last_fills[1].size
                /\ \A t \in Tokens \ {snap.token_id} :
                        NetIn(positions', t) = NetIn(positions, t)]_vars

\* the Buy of a token was filled and applied while its Sell stayed open
C38_Witness ==
    /\ pc = "handle_snapshot"
    /\ Len(last_fills) = 1
    /\ last_fills[1].side = "Buy"
    /\ \E o \in OrdersOf(state, snap.token_id) : o.side = "Sell"
    /\ NetIn(positions, snap.token_id) = last_fills[1].size

\* ------------------------------------------------------------------------
\* C39  The size throttle never increases the quote size: for every
\* inventory and every valid market config (size > 0, max_inventory >= 0)
\* the size of a quote returned by quote is <= config.size.
\* ------------------------------------------------------------------------
C39_ThrottleNeverIncreases ==
    (/\ calc.fn = "quote"
     /\ calc.out.some
     /\ calc.config.size > ZERO
     /\ calc.config.max_inventory >= ZERO) => calc.out.size <= calc.config.size

\* a nominal size of half a unit is quoted as one unit at the inventory cap
C39_Increased ==
    /\ calc.fn = "quote"
    /\ calc.out.some
    /\ calc.config.size = Scale \div 2
    /\ calc.config.max_inventory = Int2Dec(5)
    /\ calc.inventory.net_position = Int2Dec(5)
    /\ calc.out.size = Int2Dec(1)

\* the quoted size is at most the larger of config.size and one unit
C39_NeverAboveSizeOrOne ==
    (/\ calc.fn = "quote"
     /\ calc.out.some
     /\ calc.config.size > ZERO
     /\ calc.config.max_inventory >= ZERO) =>
        calc.out.size <= Max(calc.config.size, Int2Dec(1))

\* ------------------------------------------------------------------------
\* C40  Reconciliation for token T only touches T: reconcile_orders never
\* cancels, replaces or changes an open order of another token, every order
\* it places is an order of T, and the other tokens' orders keep their ids.
\* ------------------------------------------------------------------------
C40_ReconcileTouchesOneToken ==
    [][(pc = "handle_snapshot" /\ last'.outcome = "reconciled") =>
            /\ \A id \in DOMAIN state.orders :
                    state.orders[id].token_id # snap.token_id =>
                        /\ id \in DOMAIN state'.orders
                        /\ state'.orders[id] = state.orders[id]
            /\ \A id \in (DOMAIN state'.orders) \ (DOMAIN state.orders) :
                    state'.orders[id].token_id = snap.token_id
            /\ \A id \in DOMAIN state'.orders :
                    state'.orders[id].token_id # snap.token_id => id \in DOMAIN state.orders]_vars

\* the quote of one token was replaced while the two orders of the other
\* token, placed before, stayed open
C40_Witness ==
    /\ pc = "recv"
    /\ last.outcome = "reconciled"
    /\ last.cancels > 0
    /\ last.places = 2
    /\ \E t \in ConfiguredTokens \ {last.token_id} :
            /\ Cardinality(OrdersOf(state, t)) = 2
            /\ \A o \in OrdersOf(state, t), p \in OrdersOf(state, last.token_id) :
                    o.id[2] < p.id[2]

====
